---- MODULE Spec2Model ----
(***************************************************************************)
(* Resource-binding model of the D3D12 pipeline resource signature:        *)
(* PipelineResourceSignatureBase (description copy, static-resource gate), *)
(* PipelineResourceSignatureD3D12Impl (layout, caches, bind engine) and    *)
(* the binding verification helpers of ShaderResourceVariableBase.hpp.     *)
(*                                                                         *)
(* The model is of a DILIGENT_DEVELOPMENT build: the Verify*Binding calls  *)
(* and DEV_CHECK_ERR diagnostics are part of the handlers.  Accesses the   *)
(* code makes outside a cache table (invalid root index or offset) are     *)
(* undefined behaviour: the reference aliases either no modelled slot or   *)
(* any slot of the same cache, chosen nondeterministically, and ub is set; *)
(* a run is followed up to its first undefined access and no further.      *)
(***************************************************************************)
EXTENDS Integers, Sequences, FiniteSets, TLC

VARIABLES
    m_Desc,               \* description owned by the signature (resources sorted)
    m_pResourceAttribs,   \* ResourceAttribs, lock-step with m_Desc.Resources
    m_ImmutableSamplers,  \* ImmutableSamplerAttribs
    m_RootParams,         \* RootParamsManager: root tables and root views
    m_TotalSlots,         \* m_TotalSrvCbvUavSlots / m_TotalSamplerSlots per root type
    m_Hash,               \* hash of the layout, set at the end of the constructor
    Other,                \* a second signature, the argument of IsCompatibleWith
    ResourceStates,       \* RESOURCE_STATE of every buffer, texture and TLAS
    CmdCtx,               \* what the last operation recorded in the command context
    HeapSpace,            \* GPU-visible descriptor heap allocations held by the SRB cache
    Life,                 \* memory and sub-objects of a signature object from the entry of
                          \* its constructor to the end of its destructor
    SRBCacheB,            \* resource cache of a second shader resource binding
    Threads,              \* the operations each of two threads has completed on its binding
    DescriptorWrites,     \* times the descriptor of each SRB cache slot was written in the
                          \* GPU-visible heap
    ShaderVar,            \* a shader variable (ShaderVariableBase): the arguments of the
                          \* call in progress and the calls it made to its implementation
    Layout,               \* the constructor's argument, its position, and the layout
                          \* members and locals of CreateLayout
    StaticResCache,       \* m_pStaticResCache (NoCache when there is none)
    SRBCache,             \* resource cache of the shader resource binding
    bStaticResourcesInitialized, \* the SRB's "static resources initialized" flag
    HandlerRuns,          \* times the InitializeStaticSRBResourcesImpl handler ran
    ub,                   \* an out-of-bounds cache access has happened
    last,                 \* the last operation and its arguments
    log                   \* diagnostics emitted by the last operation

\* The device, the command context, the memory of the signature object, a second
\* binding and the record of descriptor writes.
envVars == <<ResourceStates, CmdCtx, HeapSpace, Life, SRBCacheB, Threads, DescriptorWrites, ShaderVar>>

vars == <<m_Desc, m_pResourceAttribs, m_ImmutableSamplers, m_RootParams, m_TotalSlots, m_Hash, Other, envVars, Layout,
          StaticResCache, SRBCache, bStaticResourcesInitialized, HandlerRuns, ub, last, log>>

\* What binding a resource leaves alone.
sigVars == <<m_Desc, m_pResourceAttribs, m_ImmutableSamplers, m_RootParams, m_TotalSlots, m_Hash, Other, envVars, Layout>>

(***************************************************************************)
(* Enumerations                                                            *)
(***************************************************************************)
SHADER_RESOURCE_VARIABLE_TYPE_STATIC == 0
SHADER_RESOURCE_VARIABLE_TYPE_MUTABLE == 1
SHADER_RESOURCE_VARIABLE_TYPE_DYNAMIC == 2
SHADER_RESOURCE_VARIABLE_TYPE_NUM_TYPES == 3

D3D12_DESCRIPTOR_RANGE_TYPE_SRV == 0
D3D12_DESCRIPTOR_RANGE_TYPE_UAV == 1
D3D12_DESCRIPTOR_RANGE_TYPE_CBV == 2
D3D12_DESCRIPTOR_RANGE_TYPE_SAMPLER == 3

ROOT_TYPE_STATIC == 0
ROOT_TYPE_DYNAMIC == 1
ROOT_TYPE_COUNT == 2

\* A Uint32 is kept as the two's-complement integer with the same 32 bits: 0xFFFFFFFF
\* is -1, and sums and differences of such integers wrap exactly as the code's do.
InvalidRootTableIndex == 255
InvalidSRBRootIndex == 65535
InvalidSigRootIndex == 7
InvalidOffset == -1
InvalidSamplerInd == 65535
InvalidImmutableSamplerRegister == -1

RangeTypes == 0 .. 3
VarTypes == 0 .. 2

Min(a, b) == IF a < b THEN a ELSE b
Max(a, b) == IF a > b THEN a ELSE b

(***************************************************************************)
(* Device objects that can be handed to BindResource.  Kind is the         *)
(* interface QueryInterface answers; Usage, ViewType and Sampler are the   *)
(* fields the bind engine reads.                                           *)
(***************************************************************************)
NullObj == "null"

Objects == {"BufDyn", "BufDef", "TexA", "TexB", "TexUav",
            "SamA", "SamB", "BvA", "BvB", "TlasA", "TlasB"}

KindOf(o) ==
    CASE o \in {"BufDyn", "BufDef"} -> "Buffer"
      [] o \in {"TexA", "TexB", "TexUav"} -> "TextureView"
      [] o \in {"SamA", "SamB"} -> "Sampler"
      [] o \in {"BvA", "BvB"} -> "BufferView"
      [] o \in {"TlasA", "TlasB"} -> "TopLevelAS"
      [] OTHER -> "Unknown"

UsageDynamic(o) == o = "BufDyn"

ViewTypeOf(o) ==
    CASE o \in {"TexA", "TexB"} -> "TEXTURE_VIEW_SHADER_RESOURCE"
      [] o = "TexUav" -> "TEXTURE_VIEW_UNORDERED_ACCESS"
      [] o = "BvA" -> "BUFFER_VIEW_UNORDERED_ACCESS"
      [] o = "BvB" -> "BUFFER_VIEW_SHADER_RESOURCE"
      [] OTHER -> "NONE"

GetSampler(o) ==
    CASE o = "TexA" -> "SamA"
      [] o = "TexB" -> "SamB"
      [] OTHER -> NullObj

\* CPU descriptor handle of an object; a USAGE_DYNAMIC buffer has no CBV handle.
HandleOf(o) ==
    CASE o = "BufDyn" -> 0
      [] o = "BufDef" -> 11
      [] o = "TexA" -> 21
      [] o = "TexB" -> 22
      [] o = "TexUav" -> 24
      [] o = "SamA" -> 31
      [] o = "SamB" -> 32
      [] o = "BvA" -> 41
      [] o = "BvB" -> 42
      [] o = "TlasA" -> 51
      [] o = "TlasB" -> 52

\* The buffer, texture or TLAS whose state an object stands for: GetBuffer() of a
\* buffer view, GetTexture() of a texture view, the object itself otherwise.
DeviceResourceOf(o) ==
    CASE o = "BvA" -> "BufferA"
      [] o = "BvB" -> "BufferB"
      [] o = "TexA" -> "TextureA"
      [] o = "TexB" -> "TextureB"
      [] o = "TexUav" -> "TextureUav"
      [] OTHER -> o

DeviceResources == {DeviceResourceOf(o) : o \in Objects \ {"SamA", "SamB"}}

RESOURCE_STATE_UNKNOWN == "UNKNOWN"

\* DescriptorHeapAllocation{}: the null allocation.
NullAllocation == [pDescriptorHeap |-> "nullptr", NumHandles |-> 0]

\* No signature object is being constructed or destroyed.
NoLife == [pc |-> "None"]

\* A cache that was not created.
NoCache == [Tables |-> << >>, TableStartOffset |-> << >>, NumDynamicCBsBound |-> 0, Exists |-> FALSE]

\* No shader variable is in use.
NoShaderVar == [pc |-> "None"]

\* No thread has called an operation on a binding.
NoThreads == [A |-> << >>, B |-> << >>]

\* The device before any resource has a known state, the context before any command
\* and a cache without descriptor heap space.
EnvInit ==
    /\ ResourceStates = [r \in DeviceResources |-> RESOURCE_STATE_UNKNOWN]
    /\ CmdCtx = << >>
    /\ HeapSpace = [SrvCbvUav |-> NullAllocation, Sampler |-> NullAllocation]
    /\ Life = NoLife
    /\ SRBCacheB = NoCache
    /\ Threads = NoThreads
    /\ DescriptorWrites = << >>
    /\ ShaderVar = NoShaderVar

(***************************************************************************)
(* Names are character strings modelled as token sequences, so that        *)
(* appending the combined-sampler suffix is concatenation.                 *)
(***************************************************************************)
\* A null string pointer; strings that are given are not empty.
NoSuffix == << >>

\* StreqSuff(RefStr, Str, Suff): RefStr equals Str followed by Suff (by nothing when
\* Suff is null).
StreqSuff(RefStr, Str, Suff) == RefStr = Str \o Suff

(***************************************************************************)
(* RootParameter and RootParamsManager                                     *)
(***************************************************************************)
\* A descriptor range of freshly extended storage (range type -1 until SetDescriptorRange).
UninitializedRange ==
    [RangeType |-> -1, NumDescriptors |-> 0, BaseShaderRegister |-> 0,
     RegisterSpace |-> 0, OffsetInDescriptorsFromTableStart |-> 0]

\* RootParameter(ParameterType, RootIndex, Register, RegisterSpace, Visibility, RootType)
RootParameterView(ParameterType, RootIndex, Register, RegisterSpace, Visibility, RootType) ==
    [ParameterType |-> ParameterType, RootIndex |-> RootIndex, RootType |-> RootType,
     ShaderVisibility |-> Visibility, ShaderRegister |-> Register,
     RegisterSpace |-> RegisterSpace, DescriptorTableSize |-> 0]

\* RootParameter(DESCRIPTOR_TABLE, RootIndex, NumRanges, pRanges, Visibility, RootType)
RootParameterTable(RootIndex, NumRanges, Visibility, RootType) ==
    [ParameterType |-> "DESCRIPTOR_TABLE", RootIndex |-> RootIndex, RootType |-> RootType,
     ShaderVisibility |-> Visibility,
     Ranges |-> [r \in 1 .. NumRanges |-> UninitializedRange],
     DescriptorTableSize |-> 0]

\* A copy of a table that leaves the new range storage as allocated, without copying
\* the ranges of RP into it.
RootParameterCopyTable_NoMemcpy(RP, NumRanges) ==
    [RP EXCEPT !.Ranges = [r \in 1 .. NumRanges |-> UninitializedRange]]

\* RootParameter(const RootParameter& RP, NumRanges, pRanges): copy of a table into
\* range storage of NumRanges entries.
RootParameterCopyTable(RP, NumRanges) ==
    [RP EXCEPT !.Ranges = [r \in 1 .. NumRanges |->
                              IF r <= Len(RP.Ranges) THEN RP.Ranges[r] ELSE UninitializedRange]]

\* SetDescriptorRange that leaves m_DescriptorTableSize as it was.
SetDescriptorRange_KeepsTableSize(RP, RangeIndex, Type, Register, RegisterSpace, Count, OffsetFromTableStart) ==
    [RP EXCEPT !.Ranges[RangeIndex + 1] =
                    [RangeType |-> Type, NumDescriptors |-> Count,
                     BaseShaderRegister |-> Register, RegisterSpace |-> RegisterSpace,
                     OffsetInDescriptorsFromTableStart |-> OffsetFromTableStart]]

\* RootParameter::SetDescriptorRange
SetDescriptorRange(RP, RangeIndex, Type, Register, RegisterSpace, Count, OffsetFromTableStart) ==
    [RP EXCEPT !.Ranges[RangeIndex + 1] =
                    [RangeType |-> Type, NumDescriptors |-> Count,
                     BaseShaderRegister |-> Register, RegisterSpace |-> RegisterSpace,
                     OffsetInDescriptorsFromTableStart |-> OffsetFromTableStart],
               !.DescriptorTableSize = Max(RP.DescriptorTableSize, OffsetFromTableStart + Count)]

EmptyRootParams == [RootTables |-> << >>, RootViews |-> << >>]

\* RootParamsManager::Extend: existing tables and views are copied to new storage,
\* table RootTableToAddRanges receives NumExtraDescriptorRanges more ranges.
Extend(P, NumExtraDescriptorRanges, RootTableToAddRanges) ==
    [RootTables |-> [rt \in 1 .. Len(P.RootTables) |->
                        RootParameterCopyTable(P.RootTables[rt],
                            Len(P.RootTables[rt].Ranges) +
                            (IF rt - 1 = RootTableToAddRanges THEN NumExtraDescriptorRanges ELSE 0))],
     RootViews |-> [rv \in 1 .. Len(P.RootViews) |-> P.RootViews[rv]]]

\* AddRootView that numbers the new view after the root tables only.
AddRootView_CountsTablesOnly(P, ParameterType, RootIndex, Register, RegisterSpace, Visibility, RootType) ==
    LET E == Extend(P, 0, -1)
    IN  [E EXCEPT !.RootViews = Append(E.RootViews,
            RootParameterView(ParameterType, Len(P.RootTables), Register, RegisterSpace, Visibility, RootType))]

\* RootParamsManager::AddRootView
AddRootView(P, ParameterType, RootIndex, Register, RegisterSpace, Visibility, RootType) ==
    LET E == Extend(P, 0, -1)
    IN  [E EXCEPT !.RootViews = Append(E.RootViews,
            RootParameterView(ParameterType, RootIndex, Register, RegisterSpace, Visibility, RootType))]

\* RootParamsManager::AddRootTable
AddRootTable(P, RootIndex, Visibility, RootType, NumRangesInNewTable) ==
    LET E == Extend(P, NumRangesInNewTable, -1)
    IN  [E EXCEPT !.RootTables = Append(E.RootTables,
            RootParameterTable(RootIndex, NumRangesInNewTable, Visibility, RootType))]

\* RootParamsManager::AddDescriptorRanges
AddDescriptorRanges(P, RootTableInd, NumExtraRanges) == Extend(P, NumExtraRanges, RootTableInd)

GetNumRootTables(P) == Len(P.RootTables)
GetNumRootViews(P) == Len(P.RootViews)

(***************************************************************************)
(* Layout helpers                                                          *)
(***************************************************************************)
GetDescriptorRangeType(ResType) ==
    CASE ResType = "CONSTANT_BUFFER" -> D3D12_DESCRIPTOR_RANGE_TYPE_CBV
      [] ResType = "TEXTURE_SRV" -> D3D12_DESCRIPTOR_RANGE_TYPE_SRV
      [] ResType = "BUFFER_SRV" -> D3D12_DESCRIPTOR_RANGE_TYPE_SRV
      [] ResType = "TEXTURE_UAV" -> D3D12_DESCRIPTOR_RANGE_TYPE_UAV
      [] ResType = "BUFFER_UAV" -> D3D12_DESCRIPTOR_RANGE_TYPE_UAV
      [] ResType = "SAMPLER" -> D3D12_DESCRIPTOR_RANGE_TYPE_SAMPLER
      [] ResType = "ACCEL_STRUCT" -> D3D12_DESCRIPTOR_RANGE_TYPE_SRV

\* GetRootTableIndex: the table bucket and the shader visibility of a stage mask.
GetRootTableIndex(ShaderType) ==
    IF Cardinality(ShaderType) > 1
    THEN [RootTableIndex |-> 0, ShaderVisibility |-> "ALL"]
    ELSE LET s == CHOOSE x \in ShaderType : TRUE
         IN  CASE s = "PIXEL" -> [RootTableIndex |-> 1, ShaderVisibility |-> "PIXEL"]
               [] s = "VERTEX" -> [RootTableIndex |-> 2, ShaderVisibility |-> "VERTEX"]
               [] s = "GEOMETRY" -> [RootTableIndex |-> 3, ShaderVisibility |-> "GEOMETRY"]
               [] s = "HULL" -> [RootTableIndex |-> 4, ShaderVisibility |-> "HULL"]
               [] s = "DOMAIN" -> [RootTableIndex |-> 5, ShaderVisibility |-> "DOMAIN"]
               [] s = "AMPLIFICATION" -> [RootTableIndex |-> 2, ShaderVisibility |-> "AMPLIFICATION"]
               [] s = "MESH" -> [RootTableIndex |-> 3, ShaderVisibility |-> "MESH"]
               [] OTHER -> [RootTableIndex |-> 0, ShaderVisibility |-> "ALL"]

\* GetRootType that puts every variable class into the static root type.
GetRootType_AlwaysStatic(VarType) == ROOT_TYPE_STATIC

GetRootType(VarType) ==
    IF VarType = SHADER_RESOURCE_VARIABLE_TYPE_DYNAMIC THEN ROOT_TYPE_DYNAMIC ELSE ROOT_TYPE_STATIC

\* FindImmutableSampler(Res, Desc, SamplerSuffix): index (from 0) of the first immutable
\* sampler matching the resource in stages and name, or -1.
FindImmutableSampler(Res, Desc, SamplerSuffix) ==
    LET Hits == {s \in 1 .. Len(Desc.ImmutableSamplers) :
                    /\ Desc.ImmutableSamplers[s].ShaderStages \cap Res.ShaderStages # {}
                    /\ StreqSuff(Res.Name, Desc.ImmutableSamplers[s].SamplerOrTextureName, SamplerSuffix)}
    IN  IF Hits = {} THEN -1 ELSE (CHOOSE s \in Hits : \A t \in Hits : s <= t) - 1

\* m_ResourceOffsets as CopyDescription leaves it: offset[c] is the number of
\* resources of a class below c.
ResourceOffsets(Resources) ==
    [c \in 0 .. SHADER_RESOURCE_VARIABLE_TYPE_NUM_TYPES |->
        Cardinality({i \in 1 .. Len(Resources) : Resources[i].VarType < c})]

\* GetResourceIndexRange(VarType): [first, second)
GetResourceIndexRange(Desc, VarType) ==
    [first |-> ResourceOffsets(Desc.Resources)[VarType],
     second |-> ResourceOffsets(Desc.Resources)[VarType + 1]]

IsUsingCombinedSamplers(Desc) == Desc.CombinedSamplerSuffix # NoSuffix
IsUsingSeparateSamplers(Desc) == ~IsUsingCombinedSamplers(Desc)
GetCombinedSamplerSuffix(Desc) == Desc.CombinedSamplerSuffix

\* FindAssignedSampler(SepImg): index (from 0) of the sampler resource combined with
\* the texture, searched in the texture's variable-class range.
FindAssignedSampler(Desc, SepImg) ==
    LET IdxRange == GetResourceIndexRange(Desc, SepImg.VarType)
        Hits == {i \in IdxRange.first .. IdxRange.second - 1 :
                    /\ Desc.Resources[i + 1].ResourceType = "SAMPLER"
                    /\ SepImg.ShaderStages \cap Desc.Resources[i + 1].ShaderStages # {}
                    /\ StreqSuff(Desc.Resources[i + 1].Name, SepImg.Name, GetCombinedSamplerSuffix(Desc))}
    IN  IF IsUsingCombinedSamplers(Desc) /\ Hits # {}
        THEN CHOOSE i \in Hits : \A j \in Hits : i <= j
        ELSE InvalidSamplerInd

(***************************************************************************)
(* ResourceAttribs and ImmutableSamplerAttribs                             *)
(***************************************************************************)
CacheContentType_Signature == "Signature"
CacheContentType_SRB == "SRB"

\* ResourceAttribs::RootIndex(CacheType)
RootIndex(Attribs, CacheType) ==
    IF CacheType = CacheContentType_SRB THEN Attribs.SRBRootIndex ELSE Attribs.SigRootIndex

\* ResourceAttribs::OffsetFromTableStart(CacheType)
OffsetFromTableStart(Attribs, CacheType) ==
    IF CacheType = CacheContentType_SRB THEN Attribs.SRBOffsetFromTableStart
    ELSE Attribs.SigOffsetFromTableStart

IsCombinedWithSampler(Attribs) == Attribs.SamplerInd # InvalidSamplerInd
IsImmutableSamplerAssigned(Attribs) == Attribs.ImtblSamplerAssigned

UnassignedImmutableSampler ==
    [ShaderRegister |-> InvalidImmutableSamplerRegister,
     RegisterSpace |-> InvalidImmutableSamplerRegister, ArraySize |-> 1]

\* ImmutableSamplerAttribs::IsAssigned
IsAssigned(ImmutableSampler) == ImmutableSampler.ShaderRegister # InvalidImmutableSamplerRegister

GetBaseRegisterSpace == 0

(***************************************************************************)
(* CreateLayout.  L is the layout under construction: the members and      *)
(* locals that the loop of CreateLayout updates.                           *)
(***************************************************************************)
TableIndKeys == 0 .. 6 * ROOT_TYPE_COUNT - 1

\* The constructor's members before CreateLayout; m_NumSpaces counts the register
\* space shared by the resources that are no runtime-sized arrays.
LayoutStart(Desc) ==
    [RootParams |-> EmptyRootParams,
     SrvCbvUavRootTablesMap |-> [k \in TableIndKeys |-> InvalidRootTableIndex],
     SamplerRootTablesMap |-> [k \in TableIndKeys |-> InvalidRootTableIndex],
     TotalSrvCbvUavSlots |-> [t \in 0 .. ROOT_TYPE_COUNT - 1 |-> 0],
     TotalSamplerSlots |-> [t \in 0 .. ROOT_TYPE_COUNT - 1 |-> 0],
     NumResources |-> [t \in RangeTypes |-> 0],
     StaticResCacheTblSizes |-> [t \in RangeTypes |-> 0],
     NumSpaces |-> 1,
     ResourceAttribs |-> << >>,
     ImmutableSamplers |-> [s \in 1 .. Len(Desc.ImmutableSamplers) |-> UnassignedImmutableSampler]]

\* AllocateResourceSlot with one table map for samplers and all other resources.
AllocateResourceSlot_OneMap(L, ShaderStages, VariableType, RangeType, ArraySize, IsRootView, BindPoint, Space) ==
    LET Tbl == GetRootTableIndex(ShaderStages)
        RootType == GetRootType(VariableType)
        NextRootIndex == GetNumRootTables(L.RootParams) + GetNumRootViews(L.RootParams)
        IsSampler == RangeType = D3D12_DESCRIPTOR_RANGE_TYPE_SAMPLER
        TableIndKey == Tbl.RootTableIndex * ROOT_TYPE_COUNT + RootType
        Map == L.SrvCbvUavRootTablesMap
        IsNewTable == Map[TableIndKey] = InvalidRootTableIndex
        RootTableArrayInd == IF IsNewTable THEN GetNumRootTables(L.RootParams) ELSE Map[TableIndKey]
        Params == IF IsNewTable
                  THEN AddRootTable(L.RootParams, NextRootIndex, Tbl.ShaderVisibility, RootType, 1)
                  ELSE AddDescriptorRanges(L.RootParams, RootTableArrayInd, 1)
        CurrParam == Params.RootTables[RootTableArrayInd + 1]
        Offset == CurrParam.DescriptorTableSize
        NewDescriptorRangeIndex == Len(CurrParam.Ranges) - 1
        NewParam == SetDescriptorRange(CurrParam, NewDescriptorRangeIndex, RangeType,
                                       BindPoint, Space, ArraySize, Offset)
    IN  IF IsRootView
        THEN [L |-> [L EXCEPT !.RootParams =
                        AddRootView(L.RootParams, "CBV", NextRootIndex, BindPoint, Space,
                                    Tbl.ShaderVisibility, RootType)],
              RootIndex |-> NextRootIndex,
              OffsetFromTableStart |-> 0]
        ELSE [L |-> [L EXCEPT
                        !.RootParams = [Params EXCEPT !.RootTables[RootTableArrayInd + 1] = NewParam],
                        !.SrvCbvUavRootTablesMap = [@ EXCEPT ![TableIndKey] = RootTableArrayInd],
                        !.TotalSamplerSlots =
                            IF IsSampler THEN [@ EXCEPT ![RootType] = @ + ArraySize] ELSE @,
                        !.TotalSrvCbvUavSlots =
                            IF IsSampler THEN @ ELSE [@ EXCEPT ![RootType] = @ + ArraySize]],
              RootIndex |-> CurrParam.RootIndex,
              OffsetFromTableStart |-> Offset]

\* AllocateResourceSlot: the layout after the allocation, with the two output
\* parameters RootIndex and OffsetFromTableStart.
AllocateResourceSlot(L, ShaderStages, VariableType, RangeType, ArraySize, IsRootView, BindPoint, Space) ==
    LET Tbl == GetRootTableIndex(ShaderStages)
        RootType == GetRootType(VariableType)
        NextRootIndex == GetNumRootTables(L.RootParams) + GetNumRootViews(L.RootParams)
        IsSampler == RangeType = D3D12_DESCRIPTOR_RANGE_TYPE_SAMPLER
        TableIndKey == Tbl.RootTableIndex * ROOT_TYPE_COUNT + RootType
        Map == IF IsSampler THEN L.SamplerRootTablesMap ELSE L.SrvCbvUavRootTablesMap
        IsNewTable == Map[TableIndKey] = InvalidRootTableIndex
        RootTableArrayInd == IF IsNewTable THEN GetNumRootTables(L.RootParams) ELSE Map[TableIndKey]
        Params == IF IsNewTable
                  THEN AddRootTable(L.RootParams, NextRootIndex, Tbl.ShaderVisibility, RootType, 1)
                  ELSE AddDescriptorRanges(L.RootParams, RootTableArrayInd, 1)
        CurrParam == Params.RootTables[RootTableArrayInd + 1]
        Offset == CurrParam.DescriptorTableSize
        NewDescriptorRangeIndex == Len(CurrParam.Ranges) - 1
        NewParam == SetDescriptorRange(CurrParam, NewDescriptorRangeIndex, RangeType,
                                       BindPoint, Space, ArraySize, Offset)
    IN  IF IsRootView
        THEN [L |-> [L EXCEPT !.RootParams =
                        AddRootView(L.RootParams, "CBV", NextRootIndex, BindPoint, Space,
                                    Tbl.ShaderVisibility, RootType)],
              RootIndex |-> NextRootIndex,
              OffsetFromTableStart |-> 0]
        ELSE [L |-> [L EXCEPT
                        !.RootParams = [Params EXCEPT !.RootTables[RootTableArrayInd + 1] = NewParam],
                        !.SamplerRootTablesMap =
                            IF IsSampler THEN [@ EXCEPT ![TableIndKey] = RootTableArrayInd] ELSE @,
                        !.SrvCbvUavRootTablesMap =
                            IF IsSampler THEN @ ELSE [@ EXCEPT ![TableIndKey] = RootTableArrayInd],
                        !.TotalSamplerSlots =
                            IF IsSampler THEN [@ EXCEPT ![RootType] = @ + ArraySize] ELSE @,
                        !.TotalSrvCbvUavSlots =
                            IF IsSampler THEN @ ELSE [@ EXCEPT ![RootType] = @ + ArraySize]],
              RootIndex |-> CurrParam.RootIndex,
              OffsetFromTableStart |-> Offset]

\* The loop iteration with runtime-sized arrays left in the common register space.
CreateLayoutResource_CommonSpace(L, Desc, i) ==
    LET ResDesc == Desc.Resources[i + 1]
        IsRuntimeSizedArray == "RUNTIME_ARRAY" \in ResDesc.Flags
        DescriptorRangeType == GetDescriptorRangeType(ResDesc.ResourceType)
        BindPoint == IF IsRuntimeSizedArray THEN 0 ELSE L.NumResources[DescriptorRangeType]
        Space == 0
        IsStatic == ResDesc.VarType = SHADER_RESOURCE_VARIABLE_TYPE_STATIC
        SigRootIndex == IF IsStatic THEN DescriptorRangeType ELSE InvalidSigRootIndex
        SigOffsetFromTableStart ==
            IF IsStatic THEN L.StaticResCacheTblSizes[DescriptorRangeType] ELSE InvalidOffset
        IsBuffer == ResDesc.ResourceType \in {"CONSTANT_BUFFER", "BUFFER_SRV", "BUFFER_UAV"}
        UseDynamicOffset == "NO_DYNAMIC_BUFFERS" \notin ResDesc.Flags
        IsFormattedBuffer == "FORMATTED_BUFFER" \in ResDesc.Flags
        IsRootView == IsBuffer /\ UseDynamicOffset /\ ~IsFormattedBuffer
        SrcImmutableSamplerInd ==
            IF ResDesc.ResourceType = "SAMPLER"
            THEN FindImmutableSampler(ResDesc, Desc, GetCombinedSamplerSuffix(Desc))
            ELSE -1
        AssignedSamplerInd ==
            IF SrcImmutableSamplerInd = -1 /\ ResDesc.ResourceType = "TEXTURE_SRV"
            THEN FindAssignedSampler(Desc, ResDesc)
            ELSE InvalidSamplerInd
        L1 == [L EXCEPT
                  !.NumSpaces = IF IsRuntimeSizedArray THEN @ + 1 ELSE @,
                  !.StaticResCacheTblSizes =
                      IF IsStatic THEN [@ EXCEPT ![DescriptorRangeType] = @ + ResDesc.ArraySize] ELSE @,
                  !.NumResources =
                      IF IsRuntimeSizedArray THEN @
                      ELSE [@ EXCEPT ![DescriptorRangeType] = @ + ResDesc.ArraySize]]
        Alloc == AllocateResourceSlot(L1, ResDesc.ShaderStages, ResDesc.VarType, DescriptorRangeType,
                                      ResDesc.ArraySize, IsRootView, BindPoint,
                                      GetBaseRegisterSpace + Space)
        L2 == IF SrcImmutableSamplerInd >= 0
              THEN IF ~IsAssigned(L1.ImmutableSamplers[SrcImmutableSamplerInd + 1])
                   THEN [L1 EXCEPT !.ImmutableSamplers[SrcImmutableSamplerInd + 1] =
                            [ShaderRegister |-> BindPoint, RegisterSpace |-> Space,
                             ArraySize |-> ResDesc.ArraySize]]
                   ELSE [L1 EXCEPT !.NumResources =
                            IF IsRuntimeSizedArray THEN @
                            ELSE [@ EXCEPT ![DescriptorRangeType] = @ - ResDesc.ArraySize]]
              ELSE Alloc.L
        Attribs == [Register |-> BindPoint,
                    Space |-> Space,
                    SamplerInd |-> AssignedSamplerInd,
                    SRBRootIndex |-> IF SrcImmutableSamplerInd >= 0 THEN InvalidSRBRootIndex
                                     ELSE Alloc.RootIndex,
                    SRBOffsetFromTableStart |-> IF SrcImmutableSamplerInd >= 0 THEN InvalidOffset
                                                ELSE Alloc.OffsetFromTableStart,
                    SigRootIndex |-> SigRootIndex,
                    SigOffsetFromTableStart |-> SigOffsetFromTableStart,
                    ImtblSamplerAssigned |-> SrcImmutableSamplerInd >= 0,
                    IsRootView |-> IsRootView]
    IN  [L2 EXCEPT !.ResourceAttribs = Append(@, Attribs)]

\* One iteration of the resource loop of CreateLayout, for m_Desc.Resources[i] (i from 0).
CreateLayoutResource(L, Desc, i) ==
    LET ResDesc == Desc.Resources[i + 1]
        IsRuntimeSizedArray == "RUNTIME_ARRAY" \in ResDesc.Flags
        DescriptorRangeType == GetDescriptorRangeType(ResDesc.ResourceType)
        BindPoint == IF IsRuntimeSizedArray THEN 0 ELSE L.NumResources[DescriptorRangeType]
        Space == IF IsRuntimeSizedArray THEN L.NumSpaces ELSE 0
        IsStatic == ResDesc.VarType = SHADER_RESOURCE_VARIABLE_TYPE_STATIC
        SigRootIndex == IF IsStatic THEN DescriptorRangeType ELSE InvalidSigRootIndex
        SigOffsetFromTableStart ==
            IF IsStatic THEN L.StaticResCacheTblSizes[DescriptorRangeType] ELSE InvalidOffset
        IsBuffer == ResDesc.ResourceType \in {"CONSTANT_BUFFER", "BUFFER_SRV", "BUFFER_UAV"}
        UseDynamicOffset == "NO_DYNAMIC_BUFFERS" \notin ResDesc.Flags
        IsFormattedBuffer == "FORMATTED_BUFFER" \in ResDesc.Flags
        IsRootView == IsBuffer /\ UseDynamicOffset /\ ~IsFormattedBuffer
        SrcImmutableSamplerInd ==
            IF ResDesc.ResourceType = "SAMPLER"
            THEN FindImmutableSampler(ResDesc, Desc, GetCombinedSamplerSuffix(Desc))
            ELSE -1
        AssignedSamplerInd ==
            IF SrcImmutableSamplerInd = -1 /\ ResDesc.ResourceType = "TEXTURE_SRV"
            THEN FindAssignedSampler(Desc, ResDesc)
            ELSE InvalidSamplerInd
        L1 == [L EXCEPT
                  !.NumSpaces = IF IsRuntimeSizedArray THEN @ + 1 ELSE @,
                  !.StaticResCacheTblSizes =
                      IF IsStatic THEN [@ EXCEPT ![DescriptorRangeType] = @ + ResDesc.ArraySize] ELSE @,
                  !.NumResources =
                      IF IsRuntimeSizedArray THEN @
                      ELSE [@ EXCEPT ![DescriptorRangeType] = @ + ResDesc.ArraySize]]
        Alloc == AllocateResourceSlot(L1, ResDesc.ShaderStages, ResDesc.VarType, DescriptorRangeType,
                                      ResDesc.ArraySize, IsRootView, BindPoint,
                                      GetBaseRegisterSpace + Space)
        L2 == IF SrcImmutableSamplerInd >= 0
              THEN IF ~IsAssigned(L1.ImmutableSamplers[SrcImmutableSamplerInd + 1])
                   THEN [L1 EXCEPT !.ImmutableSamplers[SrcImmutableSamplerInd + 1] =
                            [ShaderRegister |-> BindPoint, RegisterSpace |-> Space,
                             ArraySize |-> ResDesc.ArraySize]]
                   ELSE [L1 EXCEPT !.NumResources =
                            IF IsRuntimeSizedArray THEN @
                            ELSE [@ EXCEPT ![DescriptorRangeType] = @ - ResDesc.ArraySize]]
              ELSE Alloc.L
        Attribs == [Register |-> BindPoint,
                    Space |-> Space,
                    SamplerInd |-> AssignedSamplerInd,
                    SRBRootIndex |-> IF SrcImmutableSamplerInd >= 0 THEN InvalidSRBRootIndex
                                     ELSE Alloc.RootIndex,
                    SRBOffsetFromTableStart |-> IF SrcImmutableSamplerInd >= 0 THEN InvalidOffset
                                                ELSE Alloc.OffsetFromTableStart,
                    SigRootIndex |-> SigRootIndex,
                    SigOffsetFromTableStart |-> SigOffsetFromTableStart,
                    ImtblSamplerAssigned |-> SrcImmutableSamplerInd >= 0,
                    IsRootView |-> IsRootView]
    IN  [L2 EXCEPT !.ResourceAttribs = Append(@, Attribs)]

RECURSIVE CreateLayoutResources(_, _, _)
\* The resource loop of CreateLayout from index i on.
CreateLayoutResources(L, Desc, i) ==
    IF i >= Len(Desc.Resources) THEN L
    ELSE CreateLayoutResources(CreateLayoutResource(L, Desc, i), Desc, i + 1)

RECURSIVE AddUnassignedImmutableSamplers(_, _)
\* The second loop of CreateLayout: immutable samplers that no resource matched.
AddUnassignedImmutableSamplers(L, i) ==
    IF i >= Len(L.ImmutableSamplers) THEN L
    ELSE IF IsAssigned(L.ImmutableSamplers[i + 1])
         THEN AddUnassignedImmutableSamplers(L, i + 1)
         ELSE AddUnassignedImmutableSamplers(
                  [L EXCEPT !.ImmutableSamplers[i + 1] =
                                [@ EXCEPT !.RegisterSpace = GetBaseRegisterSpace,
                                          !.ShaderRegister = L.NumResources[D3D12_DESCRIPTOR_RANGE_TYPE_SAMPLER]],
                            !.NumResources[D3D12_DESCRIPTOR_RANGE_TYPE_SAMPLER] = @ + 1],
                  i + 1)

CreateLayout(Desc) ==
    AddUnassignedImmutableSamplers(CreateLayoutResources(LayoutStart(Desc), Desc, 0), 0)

(***************************************************************************)
(* Hash and compatibility.  Hashes are 16 bits wide.                       *)
(***************************************************************************)
\* SHADER_TYPE and PIPELINE_RESOURCE_FLAGS bit values.
ShaderTypeBit ==
    [s \in {"VERTEX", "PIXEL", "GEOMETRY", "HULL", "DOMAIN", "COMPUTE", "AMPLIFICATION", "MESH", "RAY_GEN"} |->
        CASE s = "VERTEX" -> 1 [] s = "PIXEL" -> 2 [] s = "GEOMETRY" -> 4 [] s = "HULL" -> 8
          [] s = "DOMAIN" -> 16 [] s = "COMPUTE" -> 32 [] s = "AMPLIFICATION" -> 64
          [] s = "MESH" -> 128 [] s = "RAY_GEN" -> 256]
ResourceFlagBit ==
    [f \in {"NO_DYNAMIC_BUFFERS", "COMBINED_SAMPLER", "FORMATTED_BUFFER", "RUNTIME_ARRAY"} |->
        CASE f = "NO_DYNAMIC_BUFFERS" -> 1 [] f = "COMBINED_SAMPLER" -> 2
          [] f = "FORMATTED_BUFFER" -> 4 [] f = "RUNTIME_ARRAY" -> 8]

RECURSIVE BitMask(_, _)
\* Uint32{Flags}: the bits of the members of S joined.
BitMask(S, Bit) ==
    IF S = {} THEN 0
    ELSE LET x == CHOOSE y \in S : TRUE IN Bit[x] + BitMask(S \ {x}, Bit)

\* HashCombine(Seed, Val): Seed ^= hash(Val) + 0x9e3779b9 + (Seed << 6) + (Seed >> 2),
\* with the sum taken for the exclusive or.
HashCombine(Seed, Val) ==
    (Seed + (Val % 65536) + 40503 + Seed * 64 + Seed \div 4) % 65536

RECURSIVE HashCombineAll(_, _)
\* HashCombine(Seed, Val, Rest...)
HashCombineAll(Seed, Vals) ==
    IF Vals = << >> THEN Seed ELSE HashCombineAll(HashCombine(Seed, Head(Vals)), Tail(Vals))

\* ComputeHash(Val, Rest...)
ComputeHash(Vals) == HashCombineAll(0, Vals)

BoolBit(b) == IF b THEN 1 ELSE 0

RECURSIVE HashResources(_, _, _, _)
\* The resource loop of CalculateHash from index i on.
HashResources(Hash, Desc, Attribs, i) ==
    IF i >= Len(Desc.Resources) THEN Hash
    ELSE HashResources(
             HashCombineAll(Hash, <<Desc.Resources[i + 1].ArraySize,
                                    BitMask(Desc.Resources[i + 1].ShaderStages, ShaderTypeBit),
                                    Desc.Resources[i + 1].VarType,
                                    BitMask(Desc.Resources[i + 1].Flags, ResourceFlagBit),
                                    Attribs[i + 1].Register, Attribs[i + 1].Space,
                                    Attribs[i + 1].SRBRootIndex, Attribs[i + 1].SRBOffsetFromTableStart,
                                    BoolBit(IsImmutableSamplerAssigned(Attribs[i + 1]))>>),
             Desc, Attribs, i + 1)

RECURSIVE HashImmutableSamplers(_, _, _)
\* The immutable-sampler loop of CalculateHash from index i on.
HashImmutableSamplers(Hash, Desc, i) ==
    IF i >= Len(Desc.ImmutableSamplers) THEN Hash
    ELSE HashImmutableSamplers(
             HashCombineAll(Hash, <<BitMask(Desc.ImmutableSamplers[i + 1].ShaderStages, ShaderTypeBit),
                                    Desc.ImmutableSamplers[i + 1].Desc>>),
             Desc, i + 1)

\* CalculateHash over m_Desc and m_pResourceAttribs.
CalculateHash(Desc, Attribs) ==
    IF Len(Desc.Resources) = 0 /\ Len(Desc.ImmutableSamplers) = 0 THEN 0
    ELSE HashImmutableSamplers(
             HashResources(ComputeHash(<<Len(Desc.Resources), Len(Desc.ImmutableSamplers), Desc.BindingIndex>>),
                           Desc, Attribs, 0),
             Desc, 0)

\* ResourcesCompatible of attributes that compares the sampler index as well.
ResourceAttribsCompatible_WithSamplerInd(lhs, rhs) ==
    /\ lhs.Register = rhs.Register
    /\ lhs.Space = rhs.Space
    /\ lhs.SamplerInd = rhs.SamplerInd
    /\ lhs.SRBRootIndex = rhs.SRBRootIndex
    /\ lhs.SRBOffsetFromTableStart = rhs.SRBOffsetFromTableStart
    /\ lhs.ImtblSamplerAssigned = rhs.ImtblSamplerAssigned

\* ResourcesCompatible(const ResourceAttribs&, const ResourceAttribs&)
ResourceAttribsCompatible(lhs, rhs) ==
    /\ lhs.Register = rhs.Register
    /\ lhs.Space = rhs.Space
    /\ lhs.SRBRootIndex = rhs.SRBRootIndex
    /\ lhs.SRBOffsetFromTableStart = rhs.SRBOffsetFromTableStart
    /\ lhs.ImtblSamplerAssigned = rhs.ImtblSamplerAssigned

\* ResourcesCompatible of descriptions that does not compare the resource type.
ResourceDescsCompatible_IgnoresType(lhs, rhs) ==
    /\ lhs.ShaderStages = rhs.ShaderStages
    /\ lhs.ArraySize = rhs.ArraySize
    /\ lhs.VarType = rhs.VarType
    /\ lhs.Flags = rhs.Flags

\* ResourcesCompatible(const PipelineResourceDesc&, const PipelineResourceDesc&)
ResourceDescsCompatible(lhs, rhs) ==
    /\ lhs.ShaderStages = rhs.ShaderStages
    /\ lhs.ArraySize = rhs.ArraySize
    /\ lhs.ResourceType = rhs.ResourceType
    /\ lhs.VarType = rhs.VarType
    /\ lhs.Flags = rhs.Flags

\* A signature as IsCompatibleWith sees it.
Signature(Desc, Attribs, Hash) ==
    [Exists |-> TRUE, Desc |-> Desc, ResourceAttribs |-> Attribs, Hash |-> Hash]
NoSignature == [Exists |-> FALSE]

\* This.IsCompatibleWith(That); SameObject is this == &Other.
IsCompatibleWith(This, That, SameObject) ==
    IF SameObject THEN TRUE
    ELSE IF This.Hash # That.Hash THEN FALSE
    ELSE IF This.Desc.BindingIndex # That.Desc.BindingIndex THEN FALSE
    ELSE IF Len(This.Desc.Resources) # Len(That.Desc.Resources) THEN FALSE
    ELSE IF \E r \in 1 .. Len(This.Desc.Resources) :
                \/ ~ResourceAttribsCompatible(This.ResourceAttribs[r], That.ResourceAttribs[r])
                \/ ~ResourceDescsCompatible(This.Desc.Resources[r], That.Desc.Resources[r])
         THEN FALSE
    ELSE IF Len(This.Desc.ImmutableSamplers) # Len(That.Desc.ImmutableSamplers) THEN FALSE
    ELSE IF \E s \in 1 .. Len(This.Desc.ImmutableSamplers) :
                \/ This.Desc.ImmutableSamplers[s].ShaderStages # That.Desc.ImmutableSamplers[s].ShaderStages
                \/ This.Desc.ImmutableSamplers[s].Desc # That.Desc.ImmutableSamplers[s].Desc
         THEN FALSE
    ELSE TRUE

(***************************************************************************)
(* ShaderResourceCacheD3D12                                                *)
(***************************************************************************)
\* ShaderResourceCacheD3D12::Resource{}
EmptyResource == [pObject |-> NullObj, Type |-> "UNKNOWN", CPUDescriptorHandle |-> 0]

\* What a reference outside every table may read.
WildResource == [pObject |-> "Wild", Type |-> "WILD", CPUDescriptorHandle |-> 99]
GarbageResources == {EmptyResource, WildResource}

\* ShaderResourceCacheD3D12::InvalidDescriptorOffset, the start offset of a root table
\* that has no space in a GPU-visible heap.
InvalidDescriptorOffset == -1

\* ShaderResourceCacheD3D12::Initialize(NumTables, TableSizes): TableSizes is indexed
\* by root index (from 0); every resource is default-constructed.
InitializeCache(TableSizes) ==
    [Tables |-> [t \in 1 .. Len(TableSizes) |-> [o \in 1 .. TableSizes[t] |-> EmptyResource]],
     TableStartOffset |-> [t \in 1 .. Len(TableSizes) |-> InvalidDescriptorOffset],
     NumDynamicCBsBound |-> 0,
     Exists |-> TRUE]

\* GetCacheTableSizes: table size for every root index; root views count as
\* one-descriptor tables.
GetCacheTableSizes(RootParams) ==
    [ri \in 1 .. GetNumRootTables(RootParams) + GetNumRootViews(RootParams) |->
        IF \E rv \in 1 .. Len(RootParams.RootViews) : RootParams.RootViews[rv].RootIndex = ri - 1
        THEN 1
        ELSE IF \E rt \in 1 .. Len(RootParams.RootTables) : RootParams.RootTables[rt].RootIndex = ri - 1
             THEN LET rt == CHOOSE x \in 1 .. Len(RootParams.RootTables) :
                                RootParams.RootTables[x].RootIndex = ri - 1
                  IN  RootParams.RootTables[rt].DescriptorTableSize
             ELSE 0]

\* HeapTypeFromRangeType: the descriptor heap a range of the given type lives in.
HeapTypeFromRangeType(RangeType) ==
    IF RangeType = D3D12_DESCRIPTOR_RANGE_TYPE_SAMPLER THEN "SAMPLER" ELSE "CBV_SRV_UAV"

RECURSIVE AssignTableStartOffsets(_, _, _, _, _)
\* The root-table loop of InitSRBResourceCache from table rt on: static and mutable
\* tables are packed one after another in the heap allocation of their kind.
AssignTableStartOffsets(ResourceCache, RootParams, rt, SrvCbvUavTblStartOffset, SamplerTblStartOffset) ==
    IF rt >= GetNumRootTables(RootParams) THEN ResourceCache
    ELSE LET RootParam == RootParams.RootTables[rt + 1]
             IsDynamic == RootParam.RootType = ROOT_TYPE_DYNAMIC
             TableSize == RootParam.DescriptorTableSize
             HeapType == HeapTypeFromRangeType(RootParam.Ranges[1].RangeType)
         IN  IF IsDynamic
             THEN AssignTableStartOffsets(ResourceCache, RootParams, rt + 1,
                                          SrvCbvUavTblStartOffset, SamplerTblStartOffset)
             ELSE IF HeapType = "CBV_SRV_UAV"
                  THEN AssignTableStartOffsets(
                           [ResourceCache EXCEPT !.TableStartOffset[RootParam.RootIndex + 1] =
                                                     SrvCbvUavTblStartOffset],
                           RootParams, rt + 1, SrvCbvUavTblStartOffset + TableSize, SamplerTblStartOffset)
                  ELSE AssignTableStartOffsets(
                           [ResourceCache EXCEPT !.TableStartOffset[RootParam.RootIndex + 1] =
                                                     SamplerTblStartOffset],
                           RootParams, rt + 1, SrvCbvUavTblStartOffset, SamplerTblStartOffset + TableSize)

\* InitSRBResourceCache that only initialises the tables and assigns no start offsets.
InitSRBResourceCache_NoStartOffsets(RootParams) ==
    InitializeCache(GetCacheTableSizes(RootParams))

\* InitSRBResourceCache: the cache of a new shader resource binding.
InitSRBResourceCache(RootParams) ==
    AssignTableStartOffsets(InitializeCache(GetCacheTableSizes(RootParams)), RootParams, 0, 0, 0)

\* The table sizes counted one slot per Static resource, whatever its array size.
StaticResCacheTblSizes_PerResource(Desc) ==
    LET Static(t) == {i \in 1 .. Len(Desc.Resources) :
                         /\ Desc.Resources[i].VarType = SHADER_RESOURCE_VARIABLE_TYPE_STATIC
                         /\ GetDescriptorRangeType(Desc.Resources[i].ResourceType) = t}
    IN  [t \in 1 .. 4 |-> Cardinality(Static(t - 1))]

\* The constructor's StaticResCacheTblSizes, summed over the static resources.
StaticResCacheTblSizes(Desc) ==
    LET Static(t) == {i \in 1 .. Len(Desc.Resources) :
                         /\ Desc.Resources[i].VarType = SHADER_RESOURCE_VARIABLE_TYPE_STATIC
                         /\ GetDescriptorRangeType(Desc.Resources[i].ResourceType) = t}
        RECURSIVE Sum(_)
        Sum(S) == IF S = {} THEN 0
                  ELSE LET i == CHOOSE x \in S : TRUE
                       IN  Desc.Resources[i].ArraySize + Sum(S \ {i})
    IN  [t \in 1 .. 4 |-> Sum(Static(t - 1))]

\* StaticVarStageCount > 0
HasStaticResources(Desc) ==
    \E i \in 1 .. Len(Desc.Resources) :
        Desc.Resources[i].VarType = SHADER_RESOURCE_VARIABLE_TYPE_STATIC

\* Slot addresses are <<root index, offset>>.  NoSlot is memory outside every table.
NoSlot == <<-1, -1>>

Slots(cache) ==
    UNION {{<<t - 1, o - 1>> : o \in DOMAIN cache.Tables[t]} : t \in DOMAIN cache.Tables}

IsSlot(cache, RootInd, Offset) ==
    /\ RootInd + 1 \in DOMAIN cache.Tables
    /\ Offset + 1 \in DOMAIN cache.Tables[RootInd + 1]

\* GetRootTable(RootInd).GetResource(Offset): the memory a reference may denote.
\* Inside the tables it is the slot; outside it is undefined.
GetResourceTargets(cache, RootInd, Offset) ==
    IF IsSlot(cache, RootInd, Offset) THEN {<<RootInd, Offset>>}
    ELSE {NoSlot} \cup Slots(cache)

ReadResource(cache, tgt, garbage) ==
    IF tgt = NoSlot THEN garbage ELSE cache.Tables[tgt[1] + 1][tgt[2] + 1]

WriteResource(cache, tgt, res) ==
    IF tgt = NoSlot THEN cache ELSE [cache EXCEPT !.Tables[tgt[1] + 1][tgt[2] + 1] = res]

\* GetDesc().Usage == USAGE_DYNAMIC read through a BufferD3D12Impl pointer: defined
\* for buffers only.
UsageDynamicOutcomes(o) == IF KindOf(o) = "Buffer" THEN {UsageDynamic(o)} ELSE BOOLEAN

(***************************************************************************)
(* Binding verification (ShaderResourceVariableBase.hpp).  A diagnostic is *)
(* <<message, resource index, array index>>.                               *)
(***************************************************************************)
BindUniformBuffer(o) == KindOf(o) = "Buffer"

\* VerifyConstantBufferBinding: the messages it logs.
VerifyConstantBufferBinding(ResDesc, ResIndex, ArrayIndex, pBuffer, pCachedBuffer) ==
    LET IsBufferImpl == KindOf(pBuffer) = "Buffer"
    IN  IF pBuffer # NullObj /\ ~IsBufferImpl
        THEN {<<"InvalidResourceType", ResIndex, ArrayIndex>>}
        ELSE (IF IsBufferImpl /\ ~BindUniformBuffer(pBuffer)
              THEN {<<"NoBindUniformBufferFlag", ResIndex, ArrayIndex>>} ELSE {})
             \cup
             (IF IsBufferImpl /\ UsageDynamic(pBuffer) /\ "NO_DYNAMIC_BUFFERS" \in ResDesc.Flags
              THEN {<<"DynamicBufferNoDynamicFlag", ResIndex, ArrayIndex>>} ELSE {})
             \cup
             (IF /\ ResDesc.VarType # SHADER_RESOURCE_VARIABLE_TYPE_DYNAMIC
                 /\ pCachedBuffer # NullObj
                 /\ pCachedBuffer # pBuffer
              THEN {<<"AlreadyBound", ResIndex, ArrayIndex>>} ELSE {})

\* VerifyResourceViewBinding: the messages it logs.
VerifyResourceViewBinding(ResDesc, ResIndex, ArrayIndex, pView, ImplKind, ExpectedViewType, pCachedView) ==
    LET IsViewImpl == KindOf(pView) = ImplKind
    IN  IF pView # NullObj /\ ~IsViewImpl
        THEN {<<"InvalidResourceType", ResIndex, ArrayIndex>>}
        ELSE (IF IsViewImpl /\ ViewTypeOf(pView) # ExpectedViewType
              THEN {<<"IncorrectViewType", ResIndex, ArrayIndex>>} ELSE {})
             \cup
             (IF /\ ResDesc.VarType # SHADER_RESOURCE_VARIABLE_TYPE_DYNAMIC
                 /\ pCachedView # NullObj
                 /\ pCachedView # pView
              THEN {<<"AlreadyBound", ResIndex, ArrayIndex>>} ELSE {})

(***************************************************************************)
(* BindResourceHelper.  h is the helper's view of the world: the cache,    *)
(* the log, and whether undefined behaviour has happened.  A reference the *)
(* helper holds is a target tgt (a slot or NoSlot) with the value garbage  *)
(* read through it when it is NoSlot.                                      *)
(***************************************************************************)
LogMsg(h, msgs) == [h EXCEPT !.log = @ \cup msgs]

\* ShdrVisibleHeapCPUDescriptorHandle.ptr != 0: the table of the slot has space in a
\* GPU-visible descriptor heap.
HasShaderVisibleDescriptor(cache, tgt) ==
    /\ tgt # NoSlot
    /\ cache.TableStartOffset[tgt[1] + 1] # InvalidDescriptorOffset

\* CopyDescriptorsSimple(1, ShdrVisibleHeapCPUDescriptorHandle, ...) under the test of
\* that handle: the write of the slot's descriptor in the GPU-visible heap is recorded.
CopyDescriptor(h, tgt) ==
    IF HasShaderVisibleDescriptor(h.cache, tgt)
    THEN [h EXCEPT !.access = @ \cup {<<"descriptor", tgt[1], tgt[2]>>}]
    ELSE h

\* DstRes.Type and DstRes.CPUDescriptorHandle are set and the descriptor is copied to
\* the GPU-visible heap.
SetFields(h, tgt, Type, Handle) ==
    LET Dst == ReadResource(h.cache, tgt, EmptyResource)
    IN  CopyDescriptor([h EXCEPT !.cache = WriteResource(@, tgt,
                           [Dst EXCEPT !.Type = Type, !.CPUDescriptorHandle = Handle])], tgt)

SetObject(h, tgt, pObject) ==
    LET Dst == ReadResource(h.cache, tgt, EmptyResource)
    IN  [h EXCEPT !.cache = WriteResource(@, tgt, [Dst EXCEPT !.pObject = pObject])]

\* CacheCB without the early return for a bound non-dynamic slot.
CacheCB_AlwaysUpdate(h, ResDesc, ResIndex, ArrayIndex, tgt, garbage, DstIsDynamic, pBuffer) ==
    LET DstRes == ReadResource(h.cache, tgt, garbage)
        h1 == LogMsg(h, VerifyConstantBufferBinding(ResDesc, ResIndex, ArrayIndex, pBuffer, DstRes.pObject))
        h2 == SetFields(h1, tgt, ResDesc.ResourceType, HandleOf(pBuffer))
        Dec == IF DstRes.pObject # NullObj /\ DstIsDynamic THEN 1 ELSE 0
        Inc == IF UsageDynamic(pBuffer) THEN 1 ELSE 0
        h3 == [h2 EXCEPT !.cache.NumDynamicCBsBound = @ - Dec + Inc]
    IN  IF KindOf(pBuffer) # "Buffer" THEN h1 ELSE SetObject(h3, tgt, pBuffer)

\* BindResourceHelper::CacheCB; DstIsDynamic is what the usage test on the cached
\* object answers.
CacheCB(h, ResDesc, ResIndex, ArrayIndex, tgt, garbage, DstIsDynamic, pBuffer) ==
    LET DstRes == ReadResource(h.cache, tgt, garbage)
        h1 == LogMsg(h, VerifyConstantBufferBinding(ResDesc, ResIndex, ArrayIndex, pBuffer, DstRes.pObject))
        h2 == SetFields(h1, tgt, ResDesc.ResourceType, HandleOf(pBuffer))
        Dec == IF DstRes.pObject # NullObj /\ DstIsDynamic THEN 1 ELSE 0
        Inc == IF UsageDynamic(pBuffer) THEN 1 ELSE 0
        h3 == [h2 EXCEPT !.cache.NumDynamicCBsBound = @ - Dec + Inc]
    IN  IF KindOf(pBuffer) # "Buffer" THEN h1
        ELSE IF ResDesc.VarType # SHADER_RESOURCE_VARIABLE_TYPE_DYNAMIC /\ DstRes.pObject # NullObj
             THEN h1
             ELSE SetObject(h3, tgt, pBuffer)

\* CacheSampler that refuses to rebind a bound slot of any class.
CacheSampler_NeverRebind(h, ResDesc, ResIndex, ArrayIndex, tgt, garbage, pSampler) ==
    LET DstRes == ReadResource(h.cache, tgt, garbage)
    IN  IF KindOf(pSampler) # "Sampler"
        THEN LogMsg(h, {<<"IncorrectSamplerType", ResIndex, ArrayIndex>>})
        ELSE IF DstRes.pObject # NullObj
             THEN IF DstRes.pObject # pSampler
                  THEN LogMsg(h, {<<"AlreadyBound", ResIndex, ArrayIndex>>})
                  ELSE h
             ELSE SetObject(SetFields(h, tgt, "SAMPLER", HandleOf(pSampler)), tgt, pSampler)

\* BindResourceHelper::CacheSampler
CacheSampler(h, ResDesc, ResIndex, ArrayIndex, tgt, garbage, pSampler) ==
    LET DstRes == ReadResource(h.cache, tgt, garbage)
    IN  IF KindOf(pSampler) # "Sampler"
        THEN LogMsg(h, {<<"IncorrectSamplerType", ResIndex, ArrayIndex>>})
        ELSE IF ResDesc.VarType # SHADER_RESOURCE_VARIABLE_TYPE_DYNAMIC /\ DstRes.pObject # NullObj
             THEN IF DstRes.pObject # pSampler
                  THEN LogMsg(h, {<<"AlreadyBound", ResIndex, ArrayIndex>>})
                  ELSE h
             ELSE SetObject(SetFields(h, tgt, "SAMPLER", HandleOf(pSampler)), tgt, pSampler)

\* CacheAccelStruct without the interface query.
CacheAccelStruct_AnyObject(h, ResDesc, ResIndex, ArrayIndex, tgt, garbage, pTLAS) ==
    LET DstRes == ReadResource(h.cache, tgt, garbage)
    IN  IF ResDesc.VarType # SHADER_RESOURCE_VARIABLE_TYPE_DYNAMIC /\ DstRes.pObject # NullObj
        THEN h
        ELSE SetObject(SetFields(h, tgt, "ACCEL_STRUCT", HandleOf(pTLAS)), tgt, pTLAS)

\* BindResourceHelper::CacheAccelStruct
CacheAccelStruct(h, ResDesc, ResIndex, ArrayIndex, tgt, garbage, pTLAS) ==
    LET DstRes == ReadResource(h.cache, tgt, garbage)
    IN  IF KindOf(pTLAS) # "TopLevelAS" THEN h
        ELSE IF ResDesc.VarType # SHADER_RESOURCE_VARIABLE_TYPE_DYNAMIC /\ DstRes.pObject # NullObj
             THEN h
             ELSE SetObject(SetFields(h, tgt, "ACCEL_STRUCT", HandleOf(pTLAS)), tgt, pTLAS)

\* case SHADER_RESOURCE_TYPE_SAMPLER of BindResourceHelper::BindResource, non-null object
BindSamplerCase(h, Desc, ResIndex, ArrayIndex, tgt, garbage, pObj) ==
    CacheSampler(LogMsg(h, IF IsUsingSeparateSamplers(Desc) THEN {}
                           ELSE {<<"SamplersSetDirectly", ResIndex, ArrayIndex>>}),
                 Desc.Resources[ResIndex + 1], ResIndex, ArrayIndex, tgt, garbage, pObj)

\* The array element of the combined sampler that goes with element ArrayIndex.
SamplerArrInd(Desc, Attribs, ArrayIndex) ==
    IF Desc.Resources[Attribs.SamplerInd + 1].ArraySize > 1 THEN ArrayIndex ELSE 0

\* Address <<RootIndex, OffsetFromTableStart>> of the combined sampler's slot.
SamplerAddress(Desc, AllAttribs, ResIndex, ArrayIndex, CacheType) ==
    LET Attribs == AllAttribs[ResIndex + 1]
        SamplerAttribs == AllAttribs[Attribs.SamplerInd + 1]
    IN  <<RootIndex(SamplerAttribs, CacheType),
          OffsetFromTableStart(SamplerAttribs, CacheType)
              + SamplerArrInd(Desc, Attribs, ArrayIndex)>>

\* Records that the helper formed a reference to the slot at addr.
Touch(h, what, addr) ==
    [h EXCEPT !.access = @ \cup {<<what, addr[1], addr[2]>>},
              !.ub = @ \/ ~IsSlot(h.cache, addr[1], addr[2])]

\* A BindSamplerProc that leaves the sampler alone.
BindSamplerProc_NoSampler(h, Desc, AllAttribs, CacheType, ResIndex, ArrayIndex, samTgt, samGarbage, pTexView) == h

\* The BindSamplerProc lambda of the TEXTURE_SRV case.
BindSamplerProc(h, Desc, AllAttribs, CacheType, ResIndex, ArrayIndex, samTgt, samGarbage, pTexView) ==
    LET Attribs == AllAttribs[ResIndex + 1]
        SamplerAttribs == AllAttribs[Attribs.SamplerInd + 1]
        pSampler == GetSampler(pTexView)
    IN  IF ~IsCombinedWithSampler(Attribs) THEN h
        ELSE IF IsImmutableSamplerAssigned(SamplerAttribs) THEN h
        ELSE IF pSampler # NullObj
             THEN BindSamplerCase(
                      Touch(h, "sampler", SamplerAddress(Desc, AllAttribs, ResIndex, ArrayIndex, CacheType)),
                      Desc, Attribs.SamplerInd, SamplerArrInd(Desc, Attribs, ArrayIndex),
                      samTgt, samGarbage, pSampler)
             ELSE LogMsg(h, {<<"SamplerNotSetInView", Attribs.SamplerInd, ArrayIndex>>})

\* BindResourceHelper::CacheResourceView; WithSampler tells the TEXTURE_SRV
\* instantiation, whose BindSamplerProc is not empty.
CacheResourceView(h, Desc, AllAttribs, CacheType, ResIndex, ArrayIndex, tgt, garbage, samTgt, samGarbage, ImplKind, ExpectedViewType, WithSampler, pView) ==
    LET ResDesc == Desc.Resources[ResIndex + 1]
        DstRes == ReadResource(h.cache, tgt, garbage)
        h1 == LogMsg(h, VerifyResourceViewBinding(ResDesc, ResIndex, ArrayIndex, pView, ImplKind,
                                                  ExpectedViewType, DstRes.pObject))
        h2 == SetFields(h1, tgt, ResDesc.ResourceType, HandleOf(pView))
        h3 == IF WithSampler
              THEN BindSamplerProc(h2, Desc, AllAttribs, CacheType, ResIndex, ArrayIndex,
                                   samTgt, samGarbage, pView)
              ELSE h2
    IN  IF KindOf(pView) # ImplKind THEN h1
        ELSE IF ResDesc.VarType # SHADER_RESOURCE_VARIABLE_TYPE_DYNAMIC /\ DstRes.pObject # NullObj
             THEN h1
             ELSE SetObject(h3, tgt, pView)

\* The null branch without the reset of the paired sampler.
BindNull_KeepsSampler(h, Desc, AllAttribs, CacheType, ResIndex, ArrayIndex, tgt, garbage, samTgt, samGarbage) ==
    LET ResDesc == Desc.Resources[ResIndex + 1]
        DstRes == ReadResource(h.cache, tgt, garbage)
        h1 == LogMsg(h, IF DstRes.pObject # NullObj
                           /\ ResDesc.VarType # SHADER_RESOURCE_VARIABLE_TYPE_DYNAMIC
                        THEN {<<"ResetToNull", ResIndex, ArrayIndex>>} ELSE {})
    IN  [h1 EXCEPT !.cache = WriteResource(@, tgt, EmptyResource)]

\* The null branch of BindResourceHelper::BindResource.
BindNull(h, Desc, AllAttribs, CacheType, ResIndex, ArrayIndex, tgt, garbage, samTgt, samGarbage) ==
    LET ResDesc == Desc.Resources[ResIndex + 1]
        Attribs == AllAttribs[ResIndex + 1]
        DstRes == ReadResource(h.cache, tgt, garbage)
        h1 == LogMsg(h, IF DstRes.pObject # NullObj
                           /\ ResDesc.VarType # SHADER_RESOURCE_VARIABLE_TYPE_DYNAMIC
                        THEN {<<"ResetToNull", ResIndex, ArrayIndex>>} ELSE {})
        h2 == [h1 EXCEPT !.cache = WriteResource(@, tgt, EmptyResource)]
        SamplerResDesc == Desc.Resources[Attribs.SamplerInd + 1]
        h3 == Touch(h2, "sampler", SamplerAddress(Desc, AllAttribs, ResIndex, ArrayIndex, CacheType))
        DstSam == ReadResource(h3.cache, samTgt, samGarbage)
        h4 == LogMsg(h3, IF DstSam.pObject # NullObj
                            /\ SamplerResDesc.VarType # SHADER_RESOURCE_VARIABLE_TYPE_DYNAMIC
                         THEN {<<"SamplerResetToNull", Attribs.SamplerInd, ArrayIndex>>} ELSE {})
    IN  IF IsCombinedWithSampler(Attribs)
        THEN [h4 EXCEPT !.cache = WriteResource(@, samTgt, EmptyResource)]
        ELSE h2

\* BindResourceHelper::BindResource
HelperBindResource(h, Desc, AllAttribs, CacheType, ResIndex, ArrayIndex, tgt, garbage, DstIsDynamic, samTgt, samGarbage, pObj) ==
    LET ResDesc == Desc.Resources[ResIndex + 1]
        T == ResDesc.ResourceType
    IN  IF pObj = NullObj
        THEN BindNull(h, Desc, AllAttribs, CacheType, ResIndex, ArrayIndex, tgt, garbage,
                      samTgt, samGarbage)
        ELSE CASE T = "CONSTANT_BUFFER" ->
                    CacheCB(h, ResDesc, ResIndex, ArrayIndex, tgt, garbage, DstIsDynamic, pObj)
               [] T = "TEXTURE_SRV" ->
                    CacheResourceView(h, Desc, AllAttribs, CacheType, ResIndex, ArrayIndex, tgt, garbage,
                                      samTgt, samGarbage, "TextureView",
                                      "TEXTURE_VIEW_SHADER_RESOURCE", TRUE, pObj)
               [] T = "TEXTURE_UAV" ->
                    CacheResourceView(h, Desc, AllAttribs, CacheType, ResIndex, ArrayIndex, tgt, garbage,
                                      samTgt, samGarbage, "TextureView",
                                      "TEXTURE_VIEW_UNORDERED_ACCESS", FALSE, pObj)
               [] T = "BUFFER_SRV" ->
                    CacheResourceView(h, Desc, AllAttribs, CacheType, ResIndex, ArrayIndex, tgt, garbage,
                                      samTgt, samGarbage, "BufferView",
                                      "BUFFER_VIEW_SHADER_RESOURCE", FALSE, pObj)
               [] T = "BUFFER_UAV" ->
                    CacheResourceView(h, Desc, AllAttribs, CacheType, ResIndex, ArrayIndex, tgt, garbage,
                                      samTgt, samGarbage, "BufferView",
                                      "BUFFER_VIEW_UNORDERED_ACCESS", FALSE, pObj)
               [] T = "SAMPLER" ->
                    BindSamplerCase(h, Desc, ResIndex, ArrayIndex, tgt, garbage, pObj)
               [] T = "ACCEL_STRUCT" ->
                    CacheAccelStruct(h, ResDesc, ResIndex, ArrayIndex, tgt, garbage, pObj)

(***************************************************************************)
(* InitializeStaticSRBResources                                            *)
(***************************************************************************)
\* The <<r, ArrInd>> pairs in the order the two loops visit them.
RECURSIVE StaticElements(_, _, _)
StaticElements(Desc, r, ArrInd) ==
    IF r >= GetResourceIndexRange(Desc, SHADER_RESOURCE_VARIABLE_TYPE_STATIC).second THEN << >>
    ELSE IF ArrInd >= Desc.Resources[r + 1].ArraySize THEN StaticElements(Desc, r + 1, 0)
    ELSE <<<<r, ArrInd>>>> \o StaticElements(Desc, r, ArrInd + 1)

\* The body of the inner loop for element ArrInd of resource r, with the destination
\* reference resolved to dstTgt.
InitializeStaticElement(h, Src, Desc, AllAttribs, r, ArrInd, dstTgt, garbage, DstIsDynamic) ==
    LET Attr == AllAttribs[r + 1]
        SrcRes == Src.Tables[RootIndex(Attr, CacheContentType_Signature) + 1]
                            [OffsetFromTableStart(Attr, CacheContentType_Signature) + ArrInd + 1]
        DstAddr == <<RootIndex(Attr, CacheContentType_SRB),
                     OffsetFromTableStart(Attr, CacheContentType_SRB) + ArrInd>>
        h1 == LogMsg(h, IF SrcRes.pObject = NullObj
                        THEN {<<"NoResourceAssigned", r, ArrInd>>} ELSE {})
        h2 == Touch(h1, "resource", DstAddr)
        DstRes == ReadResource(h2.cache, dstTgt, garbage)
        h3 == LogMsg(h2, IF DstRes.pObject # NullObj
                         THEN {<<"StaticAlreadyInitialized", r, ArrInd>>} ELSE {})
        Dec == IF DstRes.pObject # NullObj /\ DstIsDynamic THEN 1 ELSE 0
        Inc == IF SrcRes.pObject # NullObj /\ UsageDynamic(SrcRes.pObject) THEN 1 ELSE 0
        h4 == IF SrcRes.Type = "CONSTANT_BUFFER"
              THEN [h3 EXCEPT !.cache.NumDynamicCBsBound = @ - Dec + Inc]
              ELSE h3
        h5 == [h4 EXCEPT !.cache = WriteResource(@, dstTgt, SrcRes)]
    IN  IF DstRes.pObject # SrcRes.pObject
        THEN IF Desc.Resources[r + 1].ResourceType = "SAMPLER" \/ SrcRes.CPUDescriptorHandle # 0
             THEN CopyDescriptor(h5, dstTgt)
             ELSE h5
        ELSE h2

\* What one element can leave behind, over everything its destination reference
\* may denote.
InitializeStaticElementOutcomes(h, Src, Desc, AllAttribs, r, ArrInd) ==
    LET Attr == AllAttribs[r + 1]
        Targets == GetResourceTargets(h.cache, RootIndex(Attr, CacheContentType_SRB),
                       OffsetFromTableStart(Attr, CacheContentType_SRB) + ArrInd)
    IN  UNION {UNION {{InitializeStaticElement(h, Src, Desc, AllAttribs, r, ArrInd, tgt, g, d) :
                          d \in IF ReadResource(h.cache, tgt, g).pObject = NullObj THEN {FALSE}
                                ELSE UsageDynamicOutcomes(ReadResource(h.cache, tgt, g).pObject)} :
                      g \in IF tgt = NoSlot THEN GarbageResources ELSE {EmptyResource}} :
               tgt \in Targets}

RECURSIVE InitializeStaticOutcomes(_, _, _, _, _, _)
\* The loops of InitializeStaticSRBResources from position k of Elems on, started
\* from every helper state in H.
InitializeStaticOutcomes(H, Src, Desc, AllAttribs, Elems, k) ==
    IF k > Len(Elems) THEN H
    ELSE InitializeStaticOutcomes(
             UNION {InitializeStaticElementOutcomes(h, Src, Desc, AllAttribs, Elems[k][1], Elems[k][2]) :
                        h \in H},
             Src, Desc, AllAttribs, Elems, k + 1)

\* InitializeStaticSRBResources(DstResourceCache): the possible results.
InitializeStaticSRBResourcesOutcomes(h, Src, Desc, AllAttribs) ==
    IF ~Src.Exists THEN {h}
    ELSE InitializeStaticOutcomes({h}, Src, Desc, AllAttribs, StaticElements(Desc, 0, 0), 1)

(***************************************************************************)
(* Signature descriptions handed to the constructor                        *)
(***************************************************************************)
MaxArraySize == 2

Res(Name, Stages, ArraySize, ResourceType, VarType, Flags) ==
    [Name |-> Name, ShaderStages |-> Stages, ArraySize |-> ArraySize,
     ResourceType |-> ResourceType, VarType |-> VarType, Flags |-> Flags]

SignatureDesc(Resources, ImmutableSamplers, Combined) ==
    [Resources |-> Resources, ImmutableSamplers |-> ImmutableSamplers,
     UseCombinedTextureSamplers |-> Combined,
     CombinedSamplerSuffix |-> <<"_sampler">>,
     BindingIndex |-> 0]

STATIC == SHADER_RESOURCE_VARIABLE_TYPE_STATIC
MUTABLE == SHADER_RESOURCE_VARIABLE_TYPE_MUTABLE
DYNAMIC == SHADER_RESOURCE_VARIABLE_TYPE_DYNAMIC

\* Mutable texture with its combined sampler.
DescCombinedMutable ==
    SignatureDesc(<<Res(<<"g_Tex">>, {"PIXEL"}, 1, "TEXTURE_SRV", MUTABLE, {}),
                    Res(<<"g_Tex", "_sampler">>, {"PIXEL"}, 1, "SAMPLER", MUTABLE, {})>>,
                  << >>, TRUE)

\* Dynamic and static constant buffers, given in reverse class order.
DescConstantBuffers ==
    SignatureDesc(<<Res(<<"g_DynCB">>, {"PIXEL"}, 1, "CONSTANT_BUFFER", DYNAMIC, {}),
                    Res(<<"g_CB">>, {"VERTEX"}, 1, "CONSTANT_BUFFER", STATIC, {})>>,
                  << >>, TRUE)

\* Dynamic texture array with a sampler array of the same size.
DescCombinedDynamicArray ==
    SignatureDesc(<<Res(<<"g_Tex">>, {"PIXEL"}, MaxArraySize, "TEXTURE_SRV", DYNAMIC, {}),
                    Res(<<"g_Tex", "_sampler">>, {"PIXEL"}, MaxArraySize, "SAMPLER", DYNAMIC, {})>>,
                  << >>, TRUE)

\* Static texture whose combined sampler is an immutable sampler.
DescStaticImmutable ==
    SignatureDesc(<<Res(<<"g_Tex">>, {"PIXEL"}, 1, "TEXTURE_SRV", STATIC, {}),
                    Res(<<"g_Tex", "_sampler">>, {"PIXEL"}, 1, "SAMPLER", STATIC, {})>>,
                  <<[ShaderStages |-> {"PIXEL"}, SamplerOrTextureName |-> <<"g_Tex">>, Desc |-> 0]>>, TRUE)

\* Mutable texture whose combined sampler is an immutable sampler.
DescMutableImmutable ==
    SignatureDesc(<<Res(<<"g_Tex">>, {"PIXEL"}, 1, "TEXTURE_SRV", MUTABLE, {}),
                    Res(<<"g_Tex", "_sampler">>, {"PIXEL"}, 1, "SAMPLER", MUTABLE, {})>>,
                  <<[ShaderStages |-> {"PIXEL"}, SamplerOrTextureName |-> <<"g_Tex">>, Desc |-> 0]>>, TRUE)

\* Separate samplers: a mutable sampler and a static formatted buffer.
DescSeparate ==
    SignatureDesc(<<Res(<<"g_Sam">>, {"COMPUTE"}, 1, "SAMPLER", MUTABLE, {}),
                    Res(<<"g_Buf">>, {"COMPUTE"}, 1, "BUFFER_UAV", STATIC, {"FORMATTED_BUFFER"})>>,
                  << >>, FALSE)

\* Acceleration structures of the dynamic and the mutable class.
DescRayTracing ==
    SignatureDesc(<<Res(<<"g_DynTLAS">>, {"RAY_GEN"}, 1, "ACCEL_STRUCT", DYNAMIC, {}),
                    Res(<<"g_TLAS">>, {"RAY_GEN"}, 1, "ACCEL_STRUCT", MUTABLE, {})>>,
                  << >>, FALSE)

\* Static texture with its combined sampler.
DescCombinedStatic ==
    SignatureDesc(<<Res(<<"g_Tex">>, {"VERTEX", "PIXEL"}, 1, "TEXTURE_SRV", STATIC, {}),
                    Res(<<"g_Tex", "_sampler">>, {"VERTEX", "PIXEL"}, 1, "SAMPLER", STATIC, {})>>,
                  << >>, TRUE)

\* Mutable texture array sharing one sampler.
DescSharedSampler ==
    SignatureDesc(<<Res(<<"g_Tex">>, {"PIXEL"}, MaxArraySize, "TEXTURE_SRV", MUTABLE, {}),
                    Res(<<"g_Tex", "_sampler">>, {"PIXEL"}, 1, "SAMPLER", MUTABLE, {})>>,
                  << >>, TRUE)

SignatureDescs ==
    {DescCombinedMutable, DescConstantBuffers, DescCombinedDynamicArray, DescStaticImmutable, DescMutableImmutable,
     DescSeparate, DescRayTracing, DescCombinedStatic, DescSharedSampler}

\* CopyDescription: the resources sorted by variable class.  std::sort leaves the
\* order of resources of one class unspecified, so every sorted arrangement is a result.
\* The suffix is copied when combined samplers are used and is null otherwise.
CopyDescription(Desc) ==
    LET n == Len(Desc.Resources)
        Sorted == {q \in Permutations(1 .. n) :
                      \A i, j \in 1 .. n :
                          i < j => Desc.Resources[q[i]].VarType <= Desc.Resources[q[j]].VarType}
    IN  {[Desc EXCEPT !.Resources = [i \in 1 .. n |-> Desc.Resources[q[i]]],
                      !.CombinedSamplerSuffix =
                          IF Desc.UseCombinedTextureSamplers THEN @ ELSE NoSuffix] : q \in Sorted}

(***************************************************************************)
(* Construction                                                            *)
(***************************************************************************)
\* last: the operation, its arguments, the object its addressed slot held before it
\* (prev), and the slot addresses it formed references to (access).
NoOp == [op |-> "None", cache |-> "None", ResIndex |-> -1, ArrayIndex |-> -1,
         pObj |-> NullObj, prev |-> NullObj, access |-> {}]

\* PipelineResourceSignatureD3D12Impl constructor followed by the creation of one
\* shader resource binding (InitSRBResourceCache) without static initialisation.
Init ==
    \E Desc \in SignatureDescs :
        \E Copy \in CopyDescription(Desc) :
            LET L == CreateLayout(Copy)
            IN  /\ m_Desc = Copy
                /\ m_pResourceAttribs = L.ResourceAttribs
                /\ m_ImmutableSamplers = L.ImmutableSamplers
                /\ m_RootParams = L.RootParams
                /\ m_TotalSlots = [SrvCbvUav |-> L.TotalSrvCbvUavSlots,
                                   Sampler |-> L.TotalSamplerSlots]
                /\ m_Hash = CalculateHash(Copy, L.ResourceAttribs)
                /\ Other = NoSignature
                /\ EnvInit
                /\ Layout = [Desc |-> Desc, pc |-> "Constructed", i |-> Len(Copy.Resources), L |-> L]
                /\ StaticResCache = IF HasStaticResources(Desc)
                                    THEN InitializeCache(StaticResCacheTblSizes(Desc))
                                    ELSE NoCache
                /\ SRBCache = InitSRBResourceCache(L.RootParams)
                /\ bStaticResourcesInitialized = FALSE
                /\ HandlerRuns = 0
                /\ ub = FALSE
                /\ last = NoOp
                /\ log = {}

(***************************************************************************)
(* Operations                                                              *)
(***************************************************************************)
MaxDynamicCBsBound == 2

CacheOf(CacheType) == IF CacheType = CacheContentType_SRB THEN SRBCache ELSE StaticResCache

\* RootIndex and OffsetFromTableStart as PipelineResourceSignatureD3D12Impl::BindResource
\* computes them.
BindAddress(CacheType, ResIndex, ArrayIndex) ==
    <<RootIndex(m_pResourceAttribs[ResIndex + 1], CacheType),
      OffsetFromTableStart(m_pResourceAttribs[ResIndex + 1], CacheType) + ArrayIndex>>

\* PipelineResourceSignatureD3D12Impl::BindResource on cache ResourceCache: what the
\* helper can leave behind, over everything its references may denote.
BindResourceOutcomes(ResourceCache, CacheType, ResIndex, ArrayIndex, pObj) ==
    LET Attribs == m_pResourceAttribs[ResIndex + 1]
        RootInd == BindAddress(CacheType, ResIndex, ArrayIndex)[1]
        Offset == BindAddress(CacheType, ResIndex, ArrayIndex)[2]
        h0 == Touch([cache |-> ResourceCache, log |-> {}, ub |-> FALSE, access |-> {}],
                    "resource", <<RootInd, Offset>>)
        SamAddr == SamplerAddress(m_Desc, m_pResourceAttribs, ResIndex, ArrayIndex, CacheType)
        SamTargets == IF IsCombinedWithSampler(Attribs)
                      THEN GetResourceTargets(ResourceCache, SamAddr[1], SamAddr[2])
                      ELSE {NoSlot}
        Garbage(t) == IF t = NoSlot THEN GarbageResources ELSE {EmptyResource}
        DynOutcomes(t, g) == IF ReadResource(ResourceCache, t, g).pObject = NullObj THEN {FALSE}
                             ELSE UsageDynamicOutcomes(ReadResource(ResourceCache, t, g).pObject)
    IN  UNION {UNION {UNION {UNION {
            {HelperBindResource(h0, m_Desc, m_pResourceAttribs, CacheType, ResIndex, ArrayIndex,
                                tgt, g, d, samTgt, samG, pObj) : d \in DynOutcomes(tgt, g)} :
            samG \in Garbage(samTgt)} :
            samTgt \in SamTargets} :
            g \in Garbage(tgt)} :
            tgt \in GetResourceTargets(ResourceCache, RootInd, Offset)}

\* A shader variable calls BindResource: variables of the signature's static managers
\* address the static cache and exist for Static resources only; variables of a shader
\* resource binding address its cache and exist for Mutable and Dynamic resources.
BindResource(CacheType, ResIndex, ArrayIndex, pObj) ==
    LET ResDesc == m_Desc.Resources[ResIndex + 1]
    IN  /\ ~ub
        /\ CacheOf(CacheType).Exists
        /\ CacheOf(CacheType).NumDynamicCBsBound \in 0 .. MaxDynamicCBsBound - 1
        /\ IF CacheType = CacheContentType_Signature
           THEN ResDesc.VarType = SHADER_RESOURCE_VARIABLE_TYPE_STATIC
           ELSE ResDesc.VarType # SHADER_RESOURCE_VARIABLE_TYPE_STATIC
        /\ ~IsImmutableSamplerAssigned(m_pResourceAttribs[ResIndex + 1])
        /\ ArrayIndex < ResDesc.ArraySize
        /\ \E out \in BindResourceOutcomes(CacheOf(CacheType), CacheType, ResIndex, ArrayIndex, pObj) :
               /\ IF CacheType = CacheContentType_SRB
                  THEN SRBCache' = out.cache /\ UNCHANGED StaticResCache
                  ELSE StaticResCache' = out.cache /\ UNCHANGED SRBCache
               /\ log' = out.log
               /\ ub' = (ub \/ out.ub)
               /\ last' = [op |-> "BindResource", cache |-> CacheType, ResIndex |-> ResIndex,
                           ArrayIndex |-> ArrayIndex, pObj |-> pObj,
                           prev |-> IF IsSlot(CacheOf(CacheType), BindAddress(CacheType, ResIndex, ArrayIndex)[1],
                                              BindAddress(CacheType, ResIndex, ArrayIndex)[2])
                                    THEN ReadResource(CacheOf(CacheType),
                                             BindAddress(CacheType, ResIndex, ArrayIndex), EmptyResource).pObject
                                    ELSE NullObj,
                           access |-> out.access]
        /\ UNCHANGED <<sigVars, bStaticResourcesInitialized, HandlerRuns>>

\* PipelineResourceSignatureD3D12Impl::InitializeStaticSRBResources(SRB cache)
InitializeStaticSRBResources ==
    /\ ~ub
    /\ SRBCache.NumDynamicCBsBound \in 0 .. MaxDynamicCBsBound - 1
    /\ \E out \in InitializeStaticSRBResourcesOutcomes(
                      [cache |-> SRBCache, log |-> {}, ub |-> FALSE, access |-> {}],
                      StaticResCache, m_Desc, m_pResourceAttribs) :
           /\ SRBCache' = out.cache
           /\ log' = out.log
           /\ ub' = (ub \/ out.ub)
           /\ last' = [NoOp EXCEPT !.op = "InitializeStaticSRBResources",
                                   !.cache = CacheContentType_SRB, !.access = out.access]
    /\ UNCHANGED <<sigVars, StaticResCache, bStaticResourcesInitialized, HandlerRuns>>

\* InitializeStaticSRBResourcesImpl without the StaticResourcesInitialized gate.
InitializeStaticSRBResourcesImpl_Ungated ==
    /\ ~ub
    /\ SRBCache.NumDynamicCBsBound \in 0 .. MaxDynamicCBsBound - 1
    /\ HandlerRuns < 2
    /\ \E out \in InitializeStaticSRBResourcesOutcomes(
                      [cache |-> SRBCache, log |-> {}, ub |-> FALSE, access |-> {}],
                      StaticResCache, m_Desc, m_pResourceAttribs) :
           /\ SRBCache' = out.cache
           /\ log' = out.log
           /\ ub' = (ub \/ out.ub)
           /\ last' = [NoOp EXCEPT !.op = "InitializeStaticSRBResourcesImpl",
                                   !.cache = CacheContentType_SRB, !.access = out.access]
           /\ HandlerRuns' = HandlerRuns + 1
           /\ bStaticResourcesInitialized' = TRUE
    /\ UNCHANGED <<sigVars, StaticResCache>>

\* PipelineResourceSignatureBase::InitializeStaticSRBResourcesImpl(pSRB, Handler) with
\* the handler of the D3D12 binding, which calls InitializeStaticSRBResources on the
\* binding's cache.  The binding was created from this signature, so the
\* compatibility check passes.
InitializeStaticSRBResourcesImpl ==
    /\ ~ub
    /\ SRBCache.NumDynamicCBsBound \in 0 .. MaxDynamicCBsBound - 1
    /\ IF bStaticResourcesInitialized
       THEN /\ log' = {<<"WarnAlreadyInitialized", -1, -1>>}
            /\ last' = [NoOp EXCEPT !.op = "InitializeStaticSRBResourcesImpl",
                                    !.cache = CacheContentType_SRB]
            /\ UNCHANGED <<SRBCache, ub, bStaticResourcesInitialized, HandlerRuns>>
       ELSE \E out \in InitializeStaticSRBResourcesOutcomes(
                           [cache |-> SRBCache, log |-> {}, ub |-> FALSE, access |-> {}],
                           StaticResCache, m_Desc, m_pResourceAttribs) :
                /\ SRBCache' = out.cache
                /\ log' = out.log
                /\ ub' = (ub \/ out.ub)
                /\ last' = [NoOp EXCEPT !.op = "InitializeStaticSRBResourcesImpl",
                                        !.cache = CacheContentType_SRB, !.access = out.access]
                /\ HandlerRuns' = HandlerRuns + 1
                /\ bStaticResourcesInitialized' = TRUE
    /\ UNCHANGED <<sigVars, StaticResCache>>

ResIndices == 0 .. Len(m_Desc.Resources) - 1

\* The interface a resource type casts the bound object to.
ExpectedKind(ResourceType) ==
    CASE ResourceType = "CONSTANT_BUFFER" -> "Buffer"
      [] ResourceType \in {"TEXTURE_SRV", "TEXTURE_UAV"} -> "TextureView"
      [] ResourceType \in {"BUFFER_SRV", "BUFFER_UAV"} -> "BufferView"
      [] ResourceType = "SAMPLER" -> "Sampler"
      [] ResourceType = "ACCEL_STRUCT" -> "TopLevelAS"

\* The objects a caller hands to a variable of the given type: null, every object of
\* the expected interface, and two objects of other interfaces.
InputObjects(ResourceType) ==
    {NullObj}
    \cup {o \in Objects : KindOf(o) = ExpectedKind(ResourceType)}
    \cup (IF ExpectedKind(ResourceType) = "Buffer" THEN {"TexA", "SamA"}
          ELSE IF ExpectedKind(ResourceType) = "TextureView" THEN {"BufDyn", "SamA"}
          ELSE {"BufDyn", "TexA"})

Next ==
    \/ \E CacheType \in {CacheContentType_Signature, CacheContentType_SRB},
          ResIndex \in ResIndices, ArrayIndex \in 0 .. MaxArraySize - 1,
          pObj \in Objects \cup {NullObj} :
           /\ pObj \in InputObjects(m_Desc.Resources[ResIndex + 1].ResourceType)
           /\ BindResource(CacheType, ResIndex, ArrayIndex, pObj)
    \/ InitializeStaticSRBResources
    \/ InitializeStaticSRBResourcesImpl

Spec == Init /\ [][Next]_vars

(***************************************************************************)
(* Properties.  In a step of BindResource, last' names the call; unprimed  *)
(* caches are the caches before it and primed caches the caches after it.  *)
(***************************************************************************)
IsBindResource(l) == l.op = "BindResource"

BoundResDesc(l) == m_Desc.Resources[l.ResIndex + 1]

BoundAttribs(l) == m_pResourceAttribs[l.ResIndex + 1]

BoundAddress(l) == BindAddress(l.cache, l.ResIndex, l.ArrayIndex)

CorrectKind(l) == KindOf(l.pObj) = ExpectedKind(BoundResDesc(l).ResourceType)

NotDynamic(l) == BoundResDesc(l).VarType # SHADER_RESOURCE_VARIABLE_TYPE_DYNAMIC

\* The cache a call addressed, picked from a static cache and a binding cache.
CacheIn(l, Static, SRB) == IF l.cache = CacheContentType_SRB THEN SRB ELSE Static

SlotIn(cache, addr) == cache.Tables[addr[1] + 1][addr[2] + 1]

RebindConflict(l) == <<"AlreadyBound", l.ResIndex, l.ArrayIndex>>

\* A non-null object of the correct kind is bound to a Static or Mutable slot that
\* holds a different non-null object.
RebindNonDynamic ==
    /\ IsBindResource(last')
    /\ last'.pObj # NullObj
    /\ CorrectKind(last')
    /\ NotDynamic(last')
    /\ SlotIn(CacheIn(last', StaticResCache, SRBCache), BoundAddress(last')).pObject
           \notin {NullObj, last'.pObj}

\* C1 as stated: rebinding a Static or Mutable slot that holds B with a different
\* non-null object C of the correct kind logs a rebind conflict and leaves the slot
\* holding C.
C1_RebindWritesNewObject ==
    [][RebindNonDynamic =>
          /\ RebindConflict(last') \in log'
          /\ SlotIn(CacheIn(last', StaticResCache', SRBCache'), BoundAddress(last')).pObject
                 = last'.pObj]_vars

\* C1 amended: rebinding a Static or Mutable slot that holds B with a different non-null
\* object C of the correct kind is ignored: the whole cache, and so the slot's object B,
\* kind tag and descriptor handle, stay as they were.  The rebind conflict is logged for
\* constant buffers, texture and buffer views and samplers, and not for acceleration
\* structures.
C1_RebindKeepsOldObject ==
    [][RebindNonDynamic =>
          /\ StaticResCache' = StaticResCache
          /\ SRBCache' = SRBCache
          /\ (RebindConflict(last') \in log') = (BoundResDesc(last').ResourceType # "ACCEL_STRUCT")]_vars

\* C1 witness: a rebind of a non-dynamic slot happened and the slot still holds the
\* earlier object.
C1_Witness ==
    /\ IsBindResource(last)
    /\ last.pObj # NullObj
    /\ CorrectKind(last)
    /\ NotDynamic(last)
    /\ last.prev \notin {NullObj, last.pObj}
    /\ RebindConflict(last) \in log
    /\ SlotIn(CacheIn(last, StaticResCache, SRBCache), BoundAddress(last)).pObject = last.prev

\* A non-null object of the correct kind is bound to a Dynamic slot.
BindDynamic ==
    /\ IsBindResource(last')
    /\ last'.pObj # NullObj
    /\ CorrectKind(last')
    /\ ~NotDynamic(last')

\* C2: a bind of a non-null object of the correct kind to a Dynamic slot logs no rebind
\* conflict, whatever the slot held, and leaves the slot holding the object of this call
\* with the resource's kind tag and the object's descriptor handle.
C2_DynamicRebindAccepted ==
    [][BindDynamic =>
          /\ \A m \in log' : m[1] # "AlreadyBound"
          /\ SlotIn(CacheIn(last', StaticResCache', SRBCache'), BoundAddress(last'))
                 = [pObject |-> last'.pObj, Type |-> BoundResDesc(last').ResourceType,
                    CPUDescriptorHandle |-> HandleOf(last'.pObj)]]_vars

\* C2 witness: a Dynamic slot that held one object was rebound to another and holds it.
C2_Witness ==
    /\ IsBindResource(last)
    /\ last.pObj # NullObj
    /\ CorrectKind(last)
    /\ ~NotDynamic(last)
    /\ last.prev \notin {NullObj, last.pObj}
    /\ SlotIn(CacheIn(last, StaticResCache, SRBCache), BoundAddress(last)).pObject = last.pObj

\* BindResource is called with a null object.
BindNullObject == IsBindResource(last') /\ last'.pObj = NullObj

\* The texture of the call is combined with a sampler that has a slot in the cache.
PairedSamplerSlot(l, cache) ==
    /\ IsCombinedWithSampler(BoundAttribs(l))
    /\ IsSlot(cache,
              SamplerAddress(m_Desc, m_pResourceAttribs, l.ResIndex, l.ArrayIndex, l.cache)[1],
              SamplerAddress(m_Desc, m_pResourceAttribs, l.ResIndex, l.ArrayIndex, l.cache)[2])

PairedSampler(l, cache) ==
    SlotIn(cache, SamplerAddress(m_Desc, m_pResourceAttribs, l.ResIndex, l.ArrayIndex, l.cache))

PairedSamplerNotDynamic(l) ==
    m_Desc.Resources[BoundAttribs(l).SamplerInd + 1].VarType # SHADER_RESOURCE_VARIABLE_TYPE_DYNAMIC

\* C3 as stated: binding null empties the addressed slot and, for a combined texture,
\* the paired sampler slot, and an error is logged exactly when the addressed slot was
\* non-null and its class is not Dynamic.
C3_NullBindErrorIffSlotBound ==
    [][BindNullObject =>
          /\ SlotIn(CacheIn(last', StaticResCache', SRBCache'), BoundAddress(last')) = EmptyResource
          /\ PairedSamplerSlot(last', CacheIn(last', StaticResCache, SRBCache)) =>
                 PairedSampler(last', CacheIn(last', StaticResCache', SRBCache')) = EmptyResource
          /\ (log' # {}) =
                 (/\ SlotIn(CacheIn(last', StaticResCache, SRBCache), BoundAddress(last')).pObject # NullObj
                  /\ NotDynamic(last'))]_vars

\* C3 amended: binding null empties the addressed slot and, for a combined texture whose
\* sampler has a slot in the cache, the paired sampler slot.  The error about the
\* addressed variable is logged exactly when its slot was non-null and its class is not
\* Dynamic; a second error, about the sampler variable, is logged exactly when the paired
\* sampler slot was non-null and the sampler's class is not Dynamic, also when the
\* addressed slot was empty.
C3_NullBindErrorPerSlot ==
    [][BindNullObject =>
          /\ SlotIn(CacheIn(last', StaticResCache', SRBCache'), BoundAddress(last')) = EmptyResource
          /\ (<<"ResetToNull", last'.ResIndex, last'.ArrayIndex>> \in log') =
                 (/\ SlotIn(CacheIn(last', StaticResCache, SRBCache), BoundAddress(last')).pObject # NullObj
                  /\ NotDynamic(last'))
          /\ PairedSamplerSlot(last', CacheIn(last', StaticResCache, SRBCache)) =>
                 /\ PairedSampler(last', CacheIn(last', StaticResCache', SRBCache')) = EmptyResource
                 /\ (<<"SamplerResetToNull", BoundAttribs(last').SamplerInd, last'.ArrayIndex>> \in log') =
                        (/\ PairedSampler(last', CacheIn(last', StaticResCache, SRBCache)).pObject # NullObj
                         /\ PairedSamplerNotDynamic(last'))
          /\ \A m \in log' : m[1] \in {"ResetToNull", "SamplerResetToNull"}]_vars

\* C3 witness: null was bound to an empty Mutable texture slot whose paired sampler slot
\* was bound; the sampler error was logged and both slots are empty.
C3_Witness ==
    /\ IsBindResource(last)
    /\ last.pObj = NullObj
    /\ last.prev = NullObj
    /\ NotDynamic(last)
    /\ PairedSamplerSlot(last, CacheIn(last, StaticResCache, SRBCache))
    /\ log = {<<"SamplerResetToNull", BoundAttribs(last).SamplerInd, last.ArrayIndex>>}
    /\ SlotIn(CacheIn(last, StaticResCache, SRBCache), BoundAddress(last)) = EmptyResource
    /\ PairedSampler(last, CacheIn(last, StaticResCache, SRBCache)) = EmptyResource

\* C4: binding a non-null object whose kind is not the resource's declared kind changes
\* no cache: the addressed slot, the paired sampler slot and the dynamic-constant-buffer
\* counter stay as they were.
C4_WrongKindNoOp ==
    [][(IsBindResource(last') /\ last'.pObj # NullObj /\ ~CorrectKind(last')) =>
          /\ StaticResCache' = StaticResCache
          /\ SRBCache' = SRBCache]_vars

\* C4 witness: an object of the wrong kind was bound to a slot that held an object, and
\* the slot still holds it.
C4_Witness ==
    /\ IsBindResource(last)
    /\ last.pObj # NullObj
    /\ ~CorrectKind(last)
    /\ last.prev # NullObj
    /\ SlotIn(CacheIn(last, StaticResCache, SRBCache), BoundAddress(last)).pObject = last.prev

\* The slots of a cache that hold a constant buffer of dynamic usage.
DynamicCBSlots(cache) ==
    {a \in Slots(cache) : /\ SlotIn(cache, a).pObject # NullObj
                          /\ SlotIn(cache, a).Type = "CONSTANT_BUFFER"
                          /\ UsageDynamic(SlotIn(cache, a).pObject)}

\* C5 as stated: after any sequence of BindResource calls (null binds included) and
\* InitializeStaticSRBResources calls, the dynamic constant buffer counter of a cache
\* equals the number of its slots that hold a constant buffer of dynamic usage.
C5_CounterMatchesDynamicCBs ==
    ~ub => /\ StaticResCache.NumDynamicCBsBound = Cardinality(DynamicCBSlots(StaticResCache))
           /\ SRBCache.NumDynamicCBsBound = Cardinality(DynamicCBSlots(SRBCache))

\* The sampler resource a combined texture is paired with.
PairedSamplerDesc(l) == m_Desc.Resources[BoundAttribs(l).SamplerInd + 1]

\* The sampler element that goes with the texture element of the call: element i for a
\* sampler array, element 0 for a single sampler.
PairedElement(l) == IF PairedSamplerDesc(l).ArraySize > 1 THEN l.ArrayIndex ELSE 0

\* The slot of that element in the given cache.
PairedElementSlot(l, cache) ==
    SlotIn(cache, <<RootIndex(m_pResourceAttribs[BoundAttribs(l).SamplerInd + 1], l.cache),
                    OffsetFromTableStart(m_pResourceAttribs[BoundAttribs(l).SamplerInd + 1], l.cache)
                        + PairedElement(l)>>)

\* A texture view that carries a sampler is bound to an empty texture SRV slot that is
\* combined with a sampler resource without immutable sampler.
BindViewToEmptyCombinedSlot ==
    /\ IsBindResource(last')
    /\ BoundResDesc(last').ResourceType = "TEXTURE_SRV"
    /\ KindOf(last'.pObj) = "TextureView"
    /\ GetSampler(last'.pObj) # NullObj
    /\ IsCombinedWithSampler(BoundAttribs(last'))
    /\ ~IsImmutableSamplerAssigned(m_pResourceAttribs[BoundAttribs(last').SamplerInd + 1])
    /\ SlotIn(CacheIn(last', StaticResCache, SRBCache), BoundAddress(last')).pObject = NullObj

\* C6 as stated: binding a texture view with a sampler to an empty combined texture SRV
\* slot also binds the view's sampler into the paired sampler slot (element i of a
\* sampler array, element 0 of a single sampler).
C6_ViewSamplerAlwaysBound ==
    [][BindViewToEmptyCombinedSlot =>
          PairedElementSlot(last', CacheIn(last', StaticResCache', SRBCache')).pObject
              = GetSampler(last'.pObj)]_vars

\* C6 amended: the view's sampler is bound into the paired sampler slot when that slot is
\* empty or the sampler's class is Dynamic.  A Static or Mutable sampler slot that already
\* holds a sampler keeps it, and a rebind conflict about the sampler is logged when the
\* view's sampler is a different one.  The texture slot holds the view in both cases.
C6_ViewSamplerBoundWhenFree ==
    [][BindViewToEmptyCombinedSlot =>
          LET Before == PairedElementSlot(last', CacheIn(last', StaticResCache, SRBCache))
              After == PairedElementSlot(last', CacheIn(last', StaticResCache', SRBCache'))
              Conflict == <<"AlreadyBound", BoundAttribs(last').SamplerInd, PairedElement(last')>>
          IN  /\ SlotIn(CacheIn(last', StaticResCache', SRBCache'), BoundAddress(last')).pObject
                     = last'.pObj
              /\ IF Before.pObject = NullObj \/ ~PairedSamplerNotDynamic(last')
                 THEN /\ After = [pObject |-> GetSampler(last'.pObj), Type |-> "SAMPLER",
                                  CPUDescriptorHandle |-> HandleOf(GetSampler(last'.pObj))]
                      /\ Conflict \notin log'
                 ELSE /\ After = Before
                      /\ (Conflict \in log') = (Before.pObject # GetSampler(last'.pObj))]_vars

\* C6 witness: element 1 of a texture array was bound while empty, and element 1 of the
\* paired sampler array holds the view's sampler.
C6_Witness ==
    /\ IsBindResource(last)
    /\ BoundResDesc(last).ResourceType = "TEXTURE_SRV"
    /\ GetSampler(last.pObj) # NullObj
    /\ last.prev = NullObj
    /\ last.ArrayIndex = 1
    /\ IsCombinedWithSampler(BoundAttribs(last))
    /\ PairedSamplerDesc(last).ArraySize > 1
    /\ PairedElementSlot(last, CacheIn(last, StaticResCache, SRBCache)).pObject = GetSampler(last.pObj)
    /\ SlotIn(CacheIn(last, StaticResCache, SRBCache), BoundAddress(last)).pObject = last.pObj

\* BindResource is called on a texture SRV whose paired sampler resource carries an
\* immutable sampler.
BindTextureWithImmutableSampler ==
    /\ IsBindResource(last')
    /\ BoundResDesc(last').ResourceType = "TEXTURE_SRV"
    /\ IsCombinedWithSampler(BoundAttribs(last'))
    /\ IsImmutableSamplerAssigned(m_pResourceAttribs[BoundAttribs(last').SamplerInd + 1])

\* C7 as stated: BindResource on a texture SRV whose paired sampler resource carries an
\* immutable sampler forms no reference to a sampler slot, for a null object as for a
\* non-null one.
C7_ImmutableSamplerUntouched ==
    [][BindTextureWithImmutableSampler =>
          \A a \in last'.access : a[1] # "sampler"]_vars

\* InitializeStaticSRBResources runs on the binding's cache, called directly or as the
\* handler of the first InitializeStaticSRBResourcesImpl call.
CopiesStaticResources ==
    \/ last'.op = "InitializeStaticSRBResources"
    \/ last'.op = "InitializeStaticSRBResourcesImpl" /\ ~bStaticResourcesInitialized

\* The <<resource, element>> pairs of the Static class.
StaticResourceElements ==
    {<<r, e>> \in ResIndices \X (0 .. MaxArraySize - 1) :
        /\ m_Desc.Resources[r + 1].VarType = SHADER_RESOURCE_VARIABLE_TYPE_STATIC
        /\ e < m_Desc.Resources[r + 1].ArraySize}

\* Address of element e of resource r in a cache of the given content type.
ElementAddress(r, e, CacheType) ==
    <<RootIndex(m_pResourceAttribs[r + 1], CacheType),
      OffsetFromTableStart(m_pResourceAttribs[r + 1], CacheType) + e>>

\* Element e of resource r has a slot in the binding's cache and it equals the element's
\* slot in the static cache.
StaticElementCopied(r, e, Static, SRB) ==
    /\ IsSlot(SRB, ElementAddress(r, e, CacheContentType_SRB)[1],
              ElementAddress(r, e, CacheContentType_SRB)[2])
    /\ SlotIn(SRB, ElementAddress(r, e, CacheContentType_SRB))
           = SlotIn(Static, ElementAddress(r, e, CacheContentType_Signature))

\* C8 as stated: after InitializeStaticSRBResources every element of every Static
\* resource has, in the destination cache, the object, kind tag and descriptor handle of
\* its slot in the static cache, whether or not some static slot is unresolved.
C8_StaticSlotsCopied ==
    [][CopiesStaticResources =>
          \A x \in StaticResourceElements :
              StaticElementCopied(x[1], x[2], StaticResCache, SRBCache')]_vars

\* What a further InitializeStaticSRBResources call on the binding's cache can leave
\* behind in the current state.
SecondInitialization ==
    InitializeStaticSRBResourcesOutcomes(
        [cache |-> SRBCache, log |-> {}, ub |-> FALSE, access |-> {}],
        StaticResCache, m_Desc, m_pResourceAttribs)

\* C9 as stated: right after InitializeStaticSRBResources, a second call on the same
\* cache with the static cache unchanged reports no error and changes no destination
\* slot and not the dynamic constant buffer counter.
C9_SecondInitializationSilent ==
    last.op = "InitializeStaticSRBResources" =>
        \A out \in SecondInitialization : out.log = {} /\ out.cache = SRBCache

\* C10: over any sequence of InitializeStaticSRBResourcesImpl calls on one shader
\* resource binding the handler runs exactly once: the first call runs it and sets the
\* flag, and every later call only logs the warning and changes neither cache, the flag
\* nor the number of handler runs.
C10_HandlerRunsOnce ==
    /\ [](HandlerRuns = IF bStaticResourcesInitialized THEN 1 ELSE 0)
    /\ [][last'.op = "InitializeStaticSRBResourcesImpl" =>
             IF bStaticResourcesInitialized
             THEN /\ log' = {<<"WarnAlreadyInitialized", -1, -1>>}
                  /\ UNCHANGED <<SRBCache, StaticResCache, bStaticResourcesInitialized, HandlerRuns, sigVars>>
             ELSE /\ HandlerRuns' = 1
                  /\ bStaticResourcesInitialized'
                  /\ <<"WarnAlreadyInitialized", -1, -1>> \notin log']_vars

\* C10 witness: InitializeStaticSRBResourcesImpl was called again on a binding whose
\* static resources the first call had copied; the handler has run once and the call
\* logged the warning.
C10_Witness ==
    /\ last.op = "InitializeStaticSRBResourcesImpl"
    /\ bStaticResourcesInitialized
    /\ HandlerRuns = 1
    /\ log = {<<"WarnAlreadyInitialized", -1, -1>>}
    /\ \E a \in Slots(SRBCache) : SlotIn(SRBCache, a).pObject # NullObj

(***************************************************************************)
(* RootParamsManager on its own: a manager that starts empty and receives  *)
(* AddRootView, AddRootTable, AddDescriptorRanges and SetDescriptorRange   *)
(* calls.  Root indices are handed out as AllocateResourceSlot hands them  *)
(* out (the next free index); everything else is drawn from small sets.    *)
(***************************************************************************)
MaxRootParams == 2
MaxRangesInTable == 2

NoDesc == [SignatureDesc(<< >>, << >>, FALSE) EXCEPT !.CombinedSamplerSuffix = NoSuffix]

RootParamsInit ==
    /\ m_Desc = NoDesc
    /\ m_pResourceAttribs = << >>
    /\ m_ImmutableSamplers = << >>
    /\ m_RootParams = EmptyRootParams
    /\ m_TotalSlots = [SrvCbvUav |-> LayoutStart(NoDesc).TotalSrvCbvUavSlots,
                       Sampler |-> LayoutStart(NoDesc).TotalSamplerSlots]
    /\ m_Hash = 0
    /\ Other = NoSignature
    /\ EnvInit
    /\ Layout = [Desc |-> NoDesc, pc |-> "RootParams", i |-> 0, L |-> LayoutStart(NoDesc)]
    /\ StaticResCache = NoCache
    /\ SRBCache = NoCache
    /\ bStaticResourcesInitialized = FALSE
    /\ HandlerRuns = 0
    /\ ub = FALSE
    /\ last = NoOp
    /\ log = {}

RootParamsUnchanged ==
    UNCHANGED <<m_Desc, m_pResourceAttribs, m_ImmutableSamplers, m_TotalSlots, m_Hash, Other, envVars, Layout,
                StaticResCache, SRBCache, bStaticResourcesInitialized, HandlerRuns, ub, log>>

NextRootIndex == GetNumRootTables(m_RootParams) + GetNumRootViews(m_RootParams)

\* m_RootParams.AddRootView(D3D12_ROOT_PARAMETER_TYPE_CBV, RootIndex, Register, 0, Visibility, RootType)
RootParamsAddRootView(Register, Visibility, RootType) ==
    /\ NextRootIndex < MaxRootParams
    /\ m_RootParams' = AddRootView(m_RootParams, "CBV", NextRootIndex, Register, 0, Visibility, RootType)
    /\ last' = [NoOp EXCEPT !.op = "AddRootView"]
    /\ RootParamsUnchanged

\* m_RootParams.AddRootTable(RootIndex, Visibility, RootType, NumRangesInNewTable)
RootParamsAddRootTable(Visibility, RootType, NumRangesInNewTable) ==
    /\ NextRootIndex < MaxRootParams
    /\ m_RootParams' = AddRootTable(m_RootParams, NextRootIndex, Visibility, RootType, NumRangesInNewTable)
    /\ last' = [NoOp EXCEPT !.op = "AddRootTable"]
    /\ RootParamsUnchanged

\* m_RootParams.AddDescriptorRanges(RootTableInd, NumExtraRanges)
RootParamsAddDescriptorRanges(RootTableInd, NumExtraRanges) ==
    /\ RootTableInd < GetNumRootTables(m_RootParams)
    /\ Len(m_RootParams.RootTables[RootTableInd + 1].Ranges) + NumExtraRanges <= MaxRangesInTable
    /\ m_RootParams' = AddDescriptorRanges(m_RootParams, RootTableInd, NumExtraRanges)
    /\ last' = [NoOp EXCEPT !.op = "AddDescriptorRanges", !.ResIndex = RootTableInd]
    /\ RootParamsUnchanged

\* GetRootTable(RootTableInd).SetDescriptorRange(RangeIndex, Type, 0, 0, Count, table size):
\* the range must not have been set before.
RootParamsSetDescriptorRange(RootTableInd, RangeIndex, Type, Count) ==
    /\ RootTableInd < GetNumRootTables(m_RootParams)
    /\ RangeIndex < Len(m_RootParams.RootTables[RootTableInd + 1].Ranges)
    /\ m_RootParams.RootTables[RootTableInd + 1].Ranges[RangeIndex + 1] = UninitializedRange
    /\ m_RootParams' = [m_RootParams EXCEPT !.RootTables[RootTableInd + 1] =
                           SetDescriptorRange(@, RangeIndex, Type, 0, 0, Count, @.DescriptorTableSize)]
    /\ last' = [NoOp EXCEPT !.op = "SetDescriptorRange", !.ResIndex = RootTableInd]
    /\ RootParamsUnchanged

\* The shader visibility and root type of a new parameter, and the type and size of a
\* new range, as the calls of this specification pass them.
ParamKinds == {<<"ALL", ROOT_TYPE_STATIC>>, <<"PIXEL", ROOT_TYPE_DYNAMIC>>}
RangeKinds == {<<D3D12_DESCRIPTOR_RANGE_TYPE_SRV, 1>>, <<D3D12_DESCRIPTOR_RANGE_TYPE_SAMPLER, MaxArraySize>>}

RootParamsNext ==
    \/ \E k \in ParamKinds : RootParamsAddRootView(NextRootIndex, k[1], k[2])
    \/ \E k \in ParamKinds, NumRangesInNewTable \in 1 .. MaxRangesInTable :
           RootParamsAddRootTable(k[1], k[2], NumRangesInNewTable)
    \/ \E RootTableInd \in 0 .. MaxRootParams - 1, NumExtraRanges \in 1 .. MaxRangesInTable :
           RootParamsAddDescriptorRanges(RootTableInd, NumExtraRanges)
    \/ \E RootTableInd \in 0 .. MaxRootParams - 1, RangeIndex \in 0 .. MaxRangesInTable - 1,
          k \in RangeKinds :
           RootParamsSetDescriptorRange(RootTableInd, RangeIndex, k[1], k[2])

RootParamsSpec == RootParamsInit /\ [][RootParamsNext]_vars

\* Every table, view and range of P is found unchanged at the same place in Q.
RootParamsKept(P, Q) ==
    /\ Len(Q.RootTables) >= Len(P.RootTables)
    /\ Len(Q.RootViews) >= Len(P.RootViews)
    /\ \A rv \in 1 .. Len(P.RootViews) : Q.RootViews[rv] = P.RootViews[rv]
    /\ \A rt \in 1 .. Len(P.RootTables) :
           /\ Q.RootTables[rt].ParameterType = P.RootTables[rt].ParameterType
           /\ Q.RootTables[rt].RootIndex = P.RootTables[rt].RootIndex
           /\ Q.RootTables[rt].RootType = P.RootTables[rt].RootType
           /\ Q.RootTables[rt].ShaderVisibility = P.RootTables[rt].ShaderVisibility
           /\ Q.RootTables[rt].DescriptorTableSize = P.RootTables[rt].DescriptorTableSize
           /\ Len(Q.RootTables[rt].Ranges) >= Len(P.RootTables[rt].Ranges)
           /\ \A r \in 1 .. Len(P.RootTables[rt].Ranges) :
                  Q.RootTables[rt].Ranges[r] = P.RootTables[rt].Ranges[r]

\* What Q has beyond P: NewViews views, NewTables tables, and NewRanges unset ranges at
\* the end of table RootTableInd (or in the new table).
RootParamsAppended(P, Q, NewViews, NewTables, NewRanges, RootTableInd) ==
    /\ Len(Q.RootViews) = Len(P.RootViews) + NewViews
    /\ Len(Q.RootTables) = Len(P.RootTables) + NewTables
    /\ \A rt \in 1 .. Len(P.RootTables) :
           Len(Q.RootTables[rt].Ranges) =
               Len(P.RootTables[rt].Ranges) + (IF rt - 1 = RootTableInd THEN NewRanges ELSE 0)
    /\ \A rt \in 1 .. Len(Q.RootTables) :
           \A r \in 1 .. Len(Q.RootTables[rt].Ranges) :
               (rt > Len(P.RootTables) \/ r > Len(P.RootTables[rt].Ranges))
                   => Q.RootTables[rt].Ranges[r] = UninitializedRange

\* C11: an AddRootView, AddRootTable or AddDescriptorRanges call keeps every existing
\* root table and root view at its position with its root index, root type, shader
\* visibility and descriptor-table size, keeps every existing descriptor range at its
\* index with all its fields, and only appends: one view, one table, or unset ranges at
\* the end of the extended table.
C11_ExtendKeepsRootParams ==
    [][/\ last'.op \in {"AddRootView", "AddRootTable", "AddDescriptorRanges"}
           => RootParamsKept(m_RootParams, m_RootParams')
       /\ last'.op = "AddRootView"
           => RootParamsAppended(m_RootParams, m_RootParams', 1, 0, 0, -1)
       /\ last'.op = "AddRootTable"
           => RootParamsAppended(m_RootParams, m_RootParams', 0, 1, 0, -1)
       /\ last'.op = "AddDescriptorRanges"
           => \E n \in 1 .. MaxRangesInTable :
                  RootParamsAppended(m_RootParams, m_RootParams', 0, 0, n, last'.ResIndex)]_vars

\* A table whose first range is set has just been extended by a further range, next to
\* an existing root view.
C11_Witness ==
    /\ last.op = "AddDescriptorRanges"
    /\ GetNumRootViews(m_RootParams) > 0
    /\ \E rt \in 1 .. GetNumRootTables(m_RootParams) :
           /\ rt - 1 = last.ResIndex
           /\ Len(m_RootParams.RootTables[rt].Ranges) = 2
           /\ m_RootParams.RootTables[rt].Ranges[1].RangeType = D3D12_DESCRIPTOR_RANGE_TYPE_SAMPLER
           /\ m_RootParams.RootTables[rt].Ranges[2] = UninitializedRange
           /\ m_RootParams.RootTables[rt].DescriptorTableSize = MaxArraySize

(***************************************************************************)
(* The constructor step by step: CopyDescription, the resource loop of     *)
(* CreateLayout one resource at a time, the immutable-sampler loop, then   *)
(* InitSRBResourceCache for a new shader resource binding and FindResource *)
(* queries.  The description is a list of up to MaxResources different     *)
(* resources of ResourcePool with one of ImmutableSamplerLists.            *)
(***************************************************************************)
MaxResources == 3

ResourcePool ==
    {Res(<<"g_CB">>, {"VERTEX"}, 1, "CONSTANT_BUFFER", MUTABLE, {}),
     Res(<<"g_CBArr">>, {"PIXEL"}, MaxArraySize, "CONSTANT_BUFFER", DYNAMIC, {}),
     Res(<<"g_Buf">>, {"PIXEL"}, 1, "BUFFER_UAV", STATIC, {"FORMATTED_BUFFER"}),
     Res(<<"g_Tex">>, {"PIXEL"}, MaxArraySize, "TEXTURE_SRV", MUTABLE, {}),
     Res(<<"g_Tex", "_sampler">>, {"PIXEL"}, 1, "SAMPLER", STATIC, {}),
     Res(<<"g_Tex">>, {"VERTEX"}, MaxArraySize, "TEXTURE_SRV", DYNAMIC, {"RUNTIME_ARRAY"}),
     Res(<<"g_Tex", "_sampler">>, {"VERTEX"}, 1, "SAMPLER", DYNAMIC, {}),
     Res(<<"g_All">>, {"VERTEX", "PIXEL"}, MaxArraySize, "TEXTURE_UAV", STATIC, {}),
     Res(<<"g_SamArr">>, {"VERTEX"}, MaxArraySize, "SAMPLER", MUTABLE, {"RUNTIME_ARRAY"})}

ImmutableSamplerLists ==
    {<< >>,
     <<[ShaderStages |-> {"VERTEX", "PIXEL"}, SamplerOrTextureName |-> <<"g_Tex">>, Desc |-> 0]>>,
     <<[ShaderStages |-> {"PIXEL"}, SamplerOrTextureName |-> <<"g_Other">>, Desc |-> 0],
       [ShaderStages |-> {"VERTEX", "PIXEL"}, SamplerOrTextureName |-> <<"g_Tex">>, Desc |-> 0]>>}

\* ValidatePipelineResourceSignatureDesc: names and stage masks are not empty, array
\* sizes are not 0, and no two resources of one name share a shader stage.
ValidatePipelineResourceSignatureDesc(Desc) ==
    /\ \A i \in 1 .. Len(Desc.Resources) :
           /\ Desc.Resources[i].Name # << >>
           /\ Desc.Resources[i].ShaderStages # {}
           /\ Desc.Resources[i].ArraySize >= 1
    /\ \A i, j \in 1 .. Len(Desc.Resources) :
           (i # j /\ Desc.Resources[i].Name = Desc.Resources[j].Name)
               => Desc.Resources[i].ShaderStages \cap Desc.Resources[j].ShaderStages = {}

LayoutDescs ==
    {d \in {SignatureDesc(q, is, TRUE) :
                q \in UNION {[1 .. n -> ResourcePool] : n \in 1 .. MaxResources},
                is \in ImmutableSamplerLists} :
        ValidatePipelineResourceSignatureDesc(d)}

InvalidResourceIndex == -1

\* FindResource that compares the name only.
FindResource_AnyStage(Desc, ShaderStage, ResourceName) ==
    LET Hits == {r \in 0 .. Len(Desc.Resources) - 1 : Desc.Resources[r + 1].Name = ResourceName}
    IN  IF Hits = {} THEN InvalidResourceIndex ELSE CHOOSE r \in Hits : \A q \in Hits : r <= q

\* FindResource(ShaderStage, ResourceName): index of the first resource of that name
\* with one of the stages, or InvalidResourceIndex.
FindResource(Desc, ShaderStage, ResourceName) ==
    LET Hits == {r \in 0 .. Len(Desc.Resources) - 1 :
                    /\ Desc.Resources[r + 1].ShaderStages \cap ShaderStage # {}
                    /\ Desc.Resources[r + 1].Name = ResourceName}
    IN  IF Hits = {} THEN InvalidResourceIndex ELSE CHOOSE r \in Hits : \A q \in Hits : r <= q

\* Entry of the constructor with argument Desc.
LayoutInit ==
    \E Desc \in LayoutDescs :
        /\ m_Desc = NoDesc
        /\ m_pResourceAttribs = << >>
        /\ m_ImmutableSamplers = << >>
        /\ m_RootParams = EmptyRootParams
        /\ m_TotalSlots = [SrvCbvUav |-> LayoutStart(NoDesc).TotalSrvCbvUavSlots,
                           Sampler |-> LayoutStart(NoDesc).TotalSamplerSlots]
        /\ m_Hash = 0
        /\ Other = NoSignature
        /\ EnvInit
        /\ Layout = [Desc |-> Desc, pc |-> "CopyDescription", i |-> 0, L |-> LayoutStart(NoDesc)]
        /\ StaticResCache = NoCache
        /\ SRBCache = NoCache
        /\ bStaticResourcesInitialized = FALSE
        /\ HandlerRuns = 0
        /\ ub = FALSE
        /\ last = NoOp
        /\ log = {}

\* The members that mirror the layout under construction.
LayoutMembers(L) ==
    /\ m_pResourceAttribs' = L.ResourceAttribs
    /\ m_ImmutableSamplers' = L.ImmutableSamplers
    /\ m_RootParams' = L.RootParams
    /\ m_TotalSlots' = [SrvCbvUav |-> L.TotalSrvCbvUavSlots, Sampler |-> L.TotalSamplerSlots]

\* The constructor up to CreateLayout: the description is copied and sorted and the
\* static cache is initialised.
LayoutCopyDescription ==
    /\ Layout.pc = "CopyDescription"
    /\ \E Copy \in CopyDescription(Layout.Desc) :
           /\ m_Desc' = Copy
           /\ Layout' = [Layout EXCEPT !.pc = "CreateLayout", !.L = LayoutStart(Copy)]
           /\ LayoutMembers(LayoutStart(Copy))
    /\ StaticResCache' = IF HasStaticResources(Layout.Desc)
                         THEN InitializeCache(StaticResCacheTblSizes(Layout.Desc))
                         ELSE NoCache
    /\ last' = [NoOp EXCEPT !.op = "CopyDescription"]
    /\ UNCHANGED <<m_Hash, Other, envVars, SRBCache, bStaticResourcesInitialized, HandlerRuns, ub, log>>

\* One iteration of the resource loop of CreateLayout.
LayoutResource ==
    /\ Layout.pc = "CreateLayout"
    /\ Layout.i < Len(m_Desc.Resources)
    /\ Layout' = [Layout EXCEPT !.i = @ + 1, !.L = CreateLayoutResource(Layout.L, m_Desc, Layout.i)]
    /\ LayoutMembers(CreateLayoutResource(Layout.L, m_Desc, Layout.i))
    /\ last' = [NoOp EXCEPT !.op = "CreateLayoutResource", !.ResIndex = Layout.i]
    /\ UNCHANGED <<m_Desc, m_Hash, Other, envVars, StaticResCache, SRBCache, bStaticResourcesInitialized, HandlerRuns, ub, log>>

\* The immutable-sampler loop of CreateLayout and the hash; the constructor returns.
LayoutImmutableSamplers ==
    /\ Layout.pc = "CreateLayout"
    /\ Layout.i = Len(m_Desc.Resources)
    /\ Layout' = [Layout EXCEPT !.pc = "Constructed", !.L = AddUnassignedImmutableSamplers(Layout.L, 0)]
    /\ LayoutMembers(AddUnassignedImmutableSamplers(Layout.L, 0))
    /\ m_Hash' = CalculateHash(m_Desc, AddUnassignedImmutableSamplers(Layout.L, 0).ResourceAttribs)
    /\ last' = [NoOp EXCEPT !.op = "AddUnassignedImmutableSamplers"]
    /\ UNCHANGED <<m_Desc, Other, envVars, StaticResCache, SRBCache, bStaticResourcesInitialized, HandlerRuns, ub, log>>

\* InitSRBResourceCache(ResourceCache) for the cache of a new shader resource binding.
LayoutInitSRBResourceCache ==
    /\ Layout.pc = "Constructed"
    /\ ~SRBCache.Exists
    /\ SRBCache' = InitSRBResourceCache(m_RootParams)
    /\ last' = [NoOp EXCEPT !.op = "InitSRBResourceCache"]
    /\ UNCHANGED <<sigVars, StaticResCache, bStaticResourcesInitialized, HandlerRuns, ub, log>>

\* FindResource(ShaderStage, ResourceName), asked on behalf of a shader resource
\* binding; last keeps the arguments and the result.
LayoutFindResource(ShaderStage, ResourceName) ==
    /\ Layout.pc = "Constructed"
    /\ SRBCache.Exists
    /\ last' = [op |-> "FindResource", ShaderStage |-> ShaderStage, ResourceName |-> ResourceName,
                Result |-> FindResource(m_Desc, {ShaderStage}, ResourceName)]
    /\ UNCHANGED <<sigVars, StaticResCache, SRBCache, bStaticResourcesInitialized, HandlerRuns, ub, log>>

\* The names and stages a caller asks FindResource about.
ResourceNames == {<<"g_Tex">>, <<"g_All">>, <<"g_Other">>}
ShaderStages == {"VERTEX", "PIXEL", "COMPUTE"}

LayoutNext ==
    \/ LayoutCopyDescription
    \/ LayoutResource
    \/ LayoutImmutableSamplers
    \/ LayoutInitSRBResourceCache
    \/ \E ShaderStage \in ShaderStages, ResourceName \in ResourceNames :
           LayoutFindResource(ShaderStage, ResourceName)

LayoutSpec == LayoutInit /\ [][LayoutNext]_vars

(***************************************************************************)
(* Properties of the layout.  In a step of the constructor the unprimed    *)
(* members are those before the step and the primed ones those after it.   *)
(***************************************************************************)
\* The local root indices of all root tables and root views.
LocalRootIndices(P) ==
    {P.RootTables[rt].RootIndex : rt \in 1 .. Len(P.RootTables)}
        \cup {P.RootViews[rv].RootIndex : rv \in 1 .. Len(P.RootViews)}

NumRootParams(P) == GetNumRootTables(P) + GetNumRootViews(P)

\* No two root tables, no two root views and no table and view share a root index.
RootIndicesDistinct(P) ==
    /\ \A a, b \in 1 .. Len(P.RootTables) : a # b => P.RootTables[a].RootIndex # P.RootTables[b].RootIndex
    /\ \A a, b \in 1 .. Len(P.RootViews) : a # b => P.RootViews[a].RootIndex # P.RootViews[b].RootIndex
    /\ \A a \in 1 .. Len(P.RootTables), b \in 1 .. Len(P.RootViews) :
           P.RootTables[a].RootIndex # P.RootViews[b].RootIndex

\* C12: after every step of the resource walk the local root indices of the root tables
\* and root views are pairwise distinct and are exactly 0 .. N-1 for N tables and views,
\* a table or view created by the step has the number of tables and views that existed
\* before it as its root index, and GetCacheTableSizes gives every root index a size
\* that is not 0.
C12_RootIndicesInCreationOrder ==
    [][LET P == m_RootParams
           Q == m_RootParams'
       IN  /\ RootIndicesDistinct(Q)
           /\ LocalRootIndices(Q) = 0 .. NumRootParams(Q) - 1
           /\ NumRootParams(Q) \in {NumRootParams(P), NumRootParams(P) + 1}
           /\ \A rt \in Len(P.RootTables) + 1 .. Len(Q.RootTables) :
                  Q.RootTables[rt].RootIndex = NumRootParams(P)
           /\ \A rv \in Len(P.RootViews) + 1 .. Len(Q.RootViews) :
                  Q.RootViews[rv].RootIndex = NumRootParams(P)
           /\ Len(GetCacheTableSizes(Q)) = NumRootParams(Q)
           /\ \A ri \in 1 .. NumRootParams(Q) : GetCacheTableSizes(Q)[ri] > 0]_vars

\* A root view was created between two root tables: the tables have root indices 0 and
\* 2 and the view has root index 1.
C12_Witness ==
    /\ last.op = "CreateLayoutResource"
    /\ GetNumRootTables(m_RootParams) = 2
    /\ GetNumRootViews(m_RootParams) = 1
    /\ m_RootParams.RootTables[1].RootIndex = 0
    /\ m_RootParams.RootViews[1].RootIndex = 1
    /\ m_RootParams.RootTables[2].RootIndex = 2

\* The descriptors [offset, offset + count) of range r of table T.
RangeInterval(T, r) ==
    T.Ranges[r].OffsetInDescriptorsFromTableStart ..
        T.Ranges[r].OffsetInDescriptorsFromTableStart + T.Ranges[r].NumDescriptors - 1

RECURSIVE SumOfRangeCounts(_, _)
\* The number of descriptors of the first n ranges of table T.
SumOfRangeCounts(T, n) ==
    IF n = 0 THEN 0 ELSE SumOfRangeCounts(T, n - 1) + T.Ranges[n].NumDescriptors

\* C13: in every root table the descriptor ranges cover pairwise disjoint intervals
\* [offset, offset + count) that are packed (the first starts at 0 and each next one
\* starts where the previous one ends), and the descriptor-table size is the largest
\* offset + count, which is the sum of the range counts.
C13_RangesPacked ==
    \A rt \in 1 .. GetNumRootTables(m_RootParams) :
        LET T == m_RootParams.RootTables[rt]
            n == Len(T.Ranges)
        IN  /\ n >= 1
            /\ T.Ranges[1].OffsetInDescriptorsFromTableStart = 0
            /\ \A r \in 2 .. n :
                   T.Ranges[r].OffsetInDescriptorsFromTableStart =
                       T.Ranges[r - 1].OffsetInDescriptorsFromTableStart + T.Ranges[r - 1].NumDescriptors
            /\ \A a, b \in 1 .. n : a # b => RangeInterval(T, a) \cap RangeInterval(T, b) = {}
            /\ \A r \in 1 .. n : T.Ranges[r].NumDescriptors >= 1
            /\ \A r \in 1 .. n :
                   T.Ranges[r].OffsetInDescriptorsFromTableStart + T.Ranges[r].NumDescriptors
                       <= T.DescriptorTableSize
            /\ \E r \in 1 .. n :
                   T.Ranges[r].OffsetInDescriptorsFromTableStart + T.Ranges[r].NumDescriptors
                       = T.DescriptorTableSize
            /\ T.DescriptorTableSize = SumOfRangeCounts(T, n)

\* A table holds a one-descriptor range followed by an array range.
C13_Witness ==
    /\ last.op = "CreateLayoutResource"
    /\ \E rt \in 1 .. GetNumRootTables(m_RootParams) :
           /\ Len(m_RootParams.RootTables[rt].Ranges) = 2
           /\ m_RootParams.RootTables[rt].Ranges[1].NumDescriptors = 1
           /\ m_RootParams.RootTables[rt].Ranges[2].OffsetInDescriptorsFromTableStart = 1
           /\ m_RootParams.RootTables[rt].Ranges[2].NumDescriptors = MaxArraySize
           /\ m_RootParams.RootTables[rt].DescriptorTableSize = 1 + MaxArraySize

\* The resources (indices from 1) the walk has processed so far.
Processed == 1 .. Len(m_pResourceAttribs)

\* Resource i went into a descriptor table: it is no root view and no sampler resource
\* replaced by an immutable sampler.
TableBound(i) ==
    /\ ~m_pResourceAttribs[i].IsRootView
    /\ ~IsImmutableSamplerAssigned(m_pResourceAttribs[i])

\* The table-selection key of resource i: shader-stage bucket and root type.
TableSelectionKey(i) ==
    <<GetRootTableIndex(m_Desc.Resources[i].ShaderStages).RootTableIndex,
      m_Desc.Resources[i].VarType = SHADER_RESOURCE_VARIABLE_TYPE_DYNAMIC>>

IsSamplerResource(i) == m_Desc.Resources[i].ResourceType = "SAMPLER"

\* The root table with local root index ri, as a set of array positions.
TablesWithRootIndex(ri) ==
    {rt \in 1 .. GetNumRootTables(m_RootParams) : m_RootParams.RootTables[rt].RootIndex = ri}

\* C14 as stated: two table-bound resources with the same shader-stage bucket and the
\* same root type are in the same root table.
C14_SameKeySameTable ==
    \A i, j \in Processed :
        (TableBound(i) /\ TableBound(j) /\ TableSelectionKey(i) = TableSelectionKey(j))
            => m_pResourceAttribs[i].SRBRootIndex = m_pResourceAttribs[j].SRBRootIndex

\* C14 amended: two table-bound resources are in the same root table exactly when they
\* have the same shader-stage bucket, the same root type and the same heap kind (both
\* are samplers or neither is); every table-bound resource has a range of its own in
\* its table, of its range type, register and array size, at its offset.
C14_SameKeyAndHeapSameTable ==
    /\ \A i, j \in Processed :
           (TableBound(i) /\ TableBound(j))
               => ((/\ TableSelectionKey(i) = TableSelectionKey(j)
                    /\ IsSamplerResource(i) = IsSamplerResource(j))
                   <=> m_pResourceAttribs[i].SRBRootIndex = m_pResourceAttribs[j].SRBRootIndex)
    /\ \A i \in Processed :
           TableBound(i)
               => \E rt \in TablesWithRootIndex(m_pResourceAttribs[i].SRBRootIndex) :
                      \E r \in 1 .. Len(m_RootParams.RootTables[rt].Ranges) :
                          LET Range == m_RootParams.RootTables[rt].Ranges[r]
                          IN  /\ Range.OffsetInDescriptorsFromTableStart =
                                     m_pResourceAttribs[i].SRBOffsetFromTableStart
                              /\ Range.NumDescriptors = m_Desc.Resources[i].ArraySize
                              /\ Range.RangeType = GetDescriptorRangeType(m_Desc.Resources[i].ResourceType)
                              /\ Range.BaseShaderRegister = m_pResourceAttribs[i].Register
                              /\ \A j \in Processed :
                                     (j # i /\ TableBound(j)
                                        /\ m_pResourceAttribs[j].SRBRootIndex = m_pResourceAttribs[i].SRBRootIndex)
                                         => m_pResourceAttribs[j].SRBOffsetFromTableStart
                                                # m_pResourceAttribs[i].SRBOffsetFromTableStart

\* A static buffer and a mutable texture of the pixel stage share a table, and the
\* texture's sampler, of the same stage and class, is in another table.
C14_Witness ==
    /\ Layout.pc = "Constructed"
    /\ \E i, j, k \in Processed :
           /\ m_Desc.Resources[i].Name = <<"g_Buf">>
           /\ m_Desc.Resources[j].Name = <<"g_Tex">>
           /\ m_Desc.Resources[k].Name = <<"g_Tex", "_sampler">>
           /\ TableBound(i) /\ TableBound(j) /\ TableBound(k)
           /\ TableSelectionKey(i) = TableSelectionKey(j)
           /\ TableSelectionKey(j) = TableSelectionKey(k)
           /\ m_pResourceAttribs[i].SRBRootIndex = m_pResourceAttribs[j].SRBRootIndex
           /\ m_pResourceAttribs[k].SRBRootIndex # m_pResourceAttribs[j].SRBRootIndex

\* Resource i has a slot in the cache of a shader resource binding.
HasSRBSlot(i) == m_pResourceAttribs[i].SRBRootIndex # InvalidSRBRootIndex

\* C15: a resource is a root view only if it is a single buffer (constant buffer, buffer
\* SRV or buffer UAV of array size 1) without the no-dynamic-buffers and formatted-buffer
\* flags; and for every resource with a slot in the binding's cache and every array
\* index below its array size, (root index, offset + index) lies inside the table size
\* GetCacheTableSizes gives that root index.
C15_SlotsInsideCacheTables ==
    \A i \in Processed :
        /\ m_pResourceAttribs[i].IsRootView
               => /\ m_Desc.Resources[i].ResourceType \in {"CONSTANT_BUFFER", "BUFFER_SRV", "BUFFER_UAV"}
                  /\ m_Desc.Resources[i].ArraySize = 1
                  /\ "NO_DYNAMIC_BUFFERS" \notin m_Desc.Resources[i].Flags
                  /\ "FORMATTED_BUFFER" \notin m_Desc.Resources[i].Flags
        /\ HasSRBSlot(i)
               => \A ArrayIndex \in 0 .. m_Desc.Resources[i].ArraySize - 1 :
                      /\ m_pResourceAttribs[i].SRBRootIndex < Len(GetCacheTableSizes(m_RootParams))
                      /\ m_pResourceAttribs[i].SRBOffsetFromTableStart + ArrayIndex
                             < GetCacheTableSizes(m_RootParams)[m_pResourceAttribs[i].SRBRootIndex + 1]

IsRuntimeSizedArray(ResDesc) == "RUNTIME_ARRAY" \in ResDesc.Flags

\* Every runtime-sized array among the resources with attributes has bind point 0 and
\* a register space no other resource has.
RuntimeArraysApart(Desc, Attribs) ==
    \A i \in 1 .. Len(Attribs) :
        IsRuntimeSizedArray(Desc.Resources[i])
            => /\ Attribs[i].Register = 0
               /\ \A j \in 1 .. Len(Attribs) : j # i => Attribs[j].Space # Attribs[i].Space

MatchedSamplerResources(s) ==
    {i \in 1 .. Len(m_Desc.Resources) :
        /\ m_Desc.Resources[i].ResourceType = "SAMPLER"
        /\ m_Desc.ImmutableSamplers[s].ShaderStages \cap m_Desc.Resources[i].ShaderStages # {}
        /\ StreqSuff(m_Desc.Resources[i].Name, m_Desc.ImmutableSamplers[s].SamplerOrTextureName,
                     GetCombinedSamplerSuffix(m_Desc))}

\* The sampler registers <<space, register>> that resource i occupies with a descriptor
\* range, and those immutable sampler s occupies.
SamplerRegistersOfResource(i) ==
    IF m_Desc.Resources[i].ResourceType = "SAMPLER" /\ HasSRBSlot(i)
    THEN {<<m_pResourceAttribs[i].Space, m_pResourceAttribs[i].Register + a>> :
              a \in 0 .. m_Desc.Resources[i].ArraySize - 1}
    ELSE {}

SamplerRegistersOfImmutable(s) ==
    {<<m_ImmutableSamplers[s].RegisterSpace, m_ImmutableSamplers[s].ShaderRegister + a>> :
         a \in 0 .. m_ImmutableSamplers[s].ArraySize - 1}

\* Resource i has no descriptor range and no slot in the cache of a shader resource
\* binding.
NoRangeNoSRBSlot(i) ==
    /\ m_pResourceAttribs[i].SRBRootIndex = InvalidSRBRootIndex
    /\ m_pResourceAttribs[i].SRBOffsetFromTableStart = InvalidOffset
    /\ \A rt \in 1 .. GetNumRootTables(m_RootParams) :
           \A r \in 1 .. Len(m_RootParams.RootTables[rt].Ranges) :
               LET Range == m_RootParams.RootTables[rt].Ranges[r]
               IN  ~(/\ Range.RangeType = D3D12_DESCRIPTOR_RANGE_TYPE_SAMPLER
                     /\ Range.RegisterSpace = m_pResourceAttribs[i].Space
                     /\ Range.BaseShaderRegister = m_pResourceAttribs[i].Register)

\* Resource i has no slot in the signature's static cache.
NoStaticSlot(i) ==
    /\ m_pResourceAttribs[i].SigRootIndex = InvalidSigRootIndex
    /\ m_pResourceAttribs[i].SigOffsetFromTableStart = InvalidOffset

\* What C17 says of the registers: every immutable sampler is assigned; a matched one
\* has the bind point and register space of the first sampler resource it matches, and
\* that resource has no descriptor range and no slot in a binding's cache; an unmatched
\* one has a register behind all packed sampler bind points that no resource's
\* descriptor range and no other immutable sampler occupies.
ImmutableSamplerRegisters ==
    \A s \in 1 .. Len(m_ImmutableSamplers) :
        /\ IsAssigned(m_ImmutableSamplers[s])
        /\ MatchedSamplerResources(s) # {}
               => LET First == CHOOSE i \in MatchedSamplerResources(s) :
                                   \A j \in MatchedSamplerResources(s) : i <= j
                  IN  /\ m_ImmutableSamplers[s].ShaderRegister = m_pResourceAttribs[First].Register
                      /\ m_ImmutableSamplers[s].RegisterSpace = m_pResourceAttribs[First].Space
                      /\ NoRangeNoSRBSlot(First)
        /\ MatchedSamplerResources(s) = {}
               => /\ m_ImmutableSamplers[s].RegisterSpace = GetBaseRegisterSpace
                  /\ \A i \in 1 .. Len(m_Desc.Resources) :
                         \A reg \in SamplerRegistersOfResource(i) :
                             reg[1] = GetBaseRegisterSpace => reg[2] < m_ImmutableSamplers[s].ShaderRegister
                  /\ \A t \in 1 .. Len(m_ImmutableSamplers) :
                         t # s => SamplerRegistersOfImmutable(t) \cap SamplerRegistersOfImmutable(s) = {}

\* C17: after CreateLayout every immutable sampler has a register; one matched by a
\* sampler resource has the bind point and register space of the first such resource in
\* sorted order, and that resource receives no descriptor range and no cache slot, in
\* the cache of a binding or in the static cache; one matched by no resource has its
\* own new register at the end of the packed sampler bind points, distinct from every
\* resource's register and from every other immutable sampler's.
C17_ImmutableSamplerRegisters ==
    Layout.pc = "Constructed"
        => /\ ImmutableSamplerRegisters
           /\ \A s \in 1 .. Len(m_ImmutableSamplers) :
                  \A i \in MatchedSamplerResources(s) :
                      (\A j \in MatchedSamplerResources(s) : i <= j) => NoStaticSlot(i)

\* The heap kind of root table T, and whether it has space in the GPU-visible heap
\* allocation of a shader resource binding.
HeapKind(T) == IF T.Ranges[1].RangeType = D3D12_DESCRIPTOR_RANGE_TYPE_SAMPLER THEN "SAMPLER" ELSE "CBV_SRV_UAV"
IsNonDynamicTable(T) == T.RootType # ROOT_TYPE_DYNAMIC

RECURSIVE SizeOfPrecedingTables(_, _, _)
\* The sum of the sizes of the non-dynamic tables of heap kind Kind among the first n
\* root tables of P.
SizeOfPrecedingTables(P, Kind, n) ==
    IF n = 0 THEN 0
    ELSE SizeOfPrecedingTables(P, Kind, n - 1) +
         (IF IsNonDynamicTable(P.RootTables[n]) /\ HeapKind(P.RootTables[n]) = Kind
          THEN P.RootTables[n].DescriptorTableSize ELSE 0)

\* The heap region [start, start + size) of root table rt in cache ResourceCache.
TableRegion(ResourceCache, P, rt) ==
    ResourceCache.TableStartOffset[P.RootTables[rt].RootIndex + 1] ..
        ResourceCache.TableStartOffset[P.RootTables[rt].RootIndex + 1]
            + P.RootTables[rt].DescriptorTableSize - 1

TotalStaticSlots(Kind) ==
    IF Kind = "SAMPLER" THEN m_TotalSlots.Sampler[ROOT_TYPE_STATIC]
    ELSE m_TotalSlots.SrvCbvUav[ROOT_TYPE_STATIC]

StableSortByVarType(Resources) ==
    LET n == Len(Resources)
        q == CHOOSE p \in Permutations(1 .. n) :
                 \A i, j \in 1 .. n :
                     i < j => \/ Resources[p[i]].VarType < Resources[p[j]].VarType
                              \/ /\ Resources[p[i]].VarType = Resources[p[j]].VarType
                                 /\ p[i] < p[j]
    IN  [i \in 1 .. n |-> Resources[q[i]]]

\* Every class c occupies the indices [offset[c], offset[c + 1]) of the resource array.
ClassesInOffsetRanges ==
    \A c \in 0 .. SHADER_RESOURCE_VARIABLE_TYPE_NUM_TYPES - 1 :
        LET IdxRange == GetResourceIndexRange(m_Desc, c)
        IN  /\ IdxRange.second - IdxRange.first
                   = Cardinality({i \in 1 .. Len(Layout.Desc.Resources) : Layout.Desc.Resources[i].VarType = c})
            /\ \A idx \in IdxRange.first .. IdxRange.second - 1 :
                   m_Desc.Resources[idx + 1].VarType = c

\* C19: after CopyDescription the resource array of the signature is the stable sort
\* of the input resources by variable class (Static < Mutable < Dynamic), resources of
\* one class keeping their input order, and every class c occupies exactly the indices
\* [offset[c], offset[c + 1]).
C19_StableSortByClass ==
    Layout.pc # "CopyDescription"
        => /\ m_Desc.Resources = StableSortByVarType(Layout.Desc.Resources)
           /\ ClassesInOffsetRanges

\* The resources of the signature named ResourceName and used by stage ShaderStage.
ResourcesNamedInStage(ShaderStage, ResourceName) ==
    {r \in 0 .. Len(m_Desc.Resources) - 1 :
        /\ ShaderStage \in m_Desc.Resources[r + 1].ShaderStages
        /\ m_Desc.Resources[r + 1].Name = ResourceName}

MaxCompatResources == 2

\* Descriptions of the first signature.
CompatDescs ==
    {d \in {SignatureDesc(q, is, TRUE) :
                q \in UNION {[1 .. n -> ResourcePool] : n \in 1 .. MaxCompatResources},
                is \in ImmutableSamplerLists} :
        ValidatePipelineResourceSignatureDesc(d)}

RenamedNames == {<<"g_Tex">>, <<"g_Tex", "_sampler">>, <<"g_Ren">>, <<"g_Ren", "_sampler">>}
StageMasks == {{"VERTEX"}, {"PIXEL"}, {"VERTEX", "PIXEL"}}

\* The descriptions that differ from Desc in the names of resources only.
Renamings(Desc) ==
    {[Desc EXCEPT !.Resources = [i \in 1 .. Len(Desc.Resources) |-> [Desc.Resources[i] EXCEPT !.Name = names[i]]]] :
        names \in [1 .. Len(Desc.Resources) -> RenamedNames \cup {Desc.Resources[i].Name : i \in 1 .. Len(Desc.Resources)}]}

\* The descriptions that differ from Desc in one attribute that is no name.
Edits(Desc) ==
    UNION {{[Desc EXCEPT !.Resources[i].ArraySize = (@ % MaxArraySize) + 1]}
           \cup {[Desc EXCEPT !.Resources[i].VarType = t] : t \in VarTypes}
           \cup {[Desc EXCEPT !.Resources[i].ShaderStages = m] : m \in StageMasks}
           \cup {[Desc EXCEPT !.Resources[i].Flags = f] :
                    f \in {Desc.Resources[i].Flags \cup {"RUNTIME_ARRAY"}, Desc.Resources[i].Flags \ {"RUNTIME_ARRAY"}}}
           \cup {[Desc EXCEPT !.Resources[i].ResourceType = t] :
                    t \in IF Desc.Resources[i].ResourceType = "TEXTURE_SRV" /\ Desc.Resources[i].Flags = {}
                          THEN {"ACCEL_STRUCT", "TEXTURE_UAV"} ELSE {}} :
           i \in 1 .. Len(Desc.Resources)}
    \cup {[Desc EXCEPT !.BindingIndex = 1]}
    \cup {[Desc EXCEPT !.ImmutableSamplers = is] : is \in ImmutableSamplerLists}
    \cup {[Desc EXCEPT !.ImmutableSamplers = [s \in 1 .. Len(Desc.ImmutableSamplers) |->
                                                 IF s = 1 THEN [@[s] EXCEPT !.Desc = 1] ELSE @[s]]]}
    \cup {[Desc EXCEPT !.ImmutableSamplers = [s \in 1 .. Len(Desc.ImmutableSamplers) |->
                                                 IF s = 1 THEN [@[s] EXCEPT !.ShaderStages = {"PIXEL"}] ELSE @[s]]]}
    \cup {[Desc EXCEPT !.Resources = SubSeq(@, 1, Len(@) - 1)]}

\* The pairs of descriptions two signatures are created from.
CompatPairs ==
    {p \in UNION {{<<d, e>> : e \in Renamings(d) \cup Edits(d)} : d \in CompatDescs} :
        ValidatePipelineResourceSignatureDesc(p[2])}

\* The orders in which CopyDescription can have arranged Desc.Resources to get Copy.
SortOrders(Desc, Copy) ==
    {q \in Permutations(1 .. Len(Desc.Resources)) :
        Copy.Resources = [i \in 1 .. Len(Desc.Resources) |-> Desc.Resources[q[i]]]}

VarTypesOf(Desc) == [i \in 1 .. Len(Desc.Resources) |-> Desc.Resources[i].VarType]

\* std::sort compares variable classes only: descriptions with the same sequence of
\* classes are arranged in the same order.
SameSort(DescA, CopyA, DescB, CopyB) ==
    VarTypesOf(DescA) = VarTypesOf(DescB) => SortOrders(DescA, CopyA) \cap SortOrders(DescB, CopyB) # {}

CompatInit ==
    \E p \in CompatPairs :
        /\ m_Desc = NoDesc
        /\ m_pResourceAttribs = << >>
        /\ m_ImmutableSamplers = << >>
        /\ m_RootParams = EmptyRootParams
        /\ m_TotalSlots = [SrvCbvUav |-> LayoutStart(NoDesc).TotalSrvCbvUavSlots,
                           Sampler |-> LayoutStart(NoDesc).TotalSamplerSlots]
        /\ m_Hash = 0
        /\ Other = [Exists |-> FALSE, Arg |-> p[2]]
        /\ EnvInit
        /\ Layout = [Desc |-> p[1], pc |-> "CopyDescription", i |-> 0, L |-> LayoutStart(NoDesc)]
        /\ StaticResCache = NoCache
        /\ SRBCache = NoCache
        /\ bStaticResourcesInitialized = FALSE
        /\ HandlerRuns = 0
        /\ ub = FALSE
        /\ last = NoOp
        /\ log = {}

\* The constructors of the two signatures.
CompatCreateSignatures ==
    /\ Layout.pc = "CopyDescription"
    /\ \E Copy \in CopyDescription(Layout.Desc), OtherCopy \in CopyDescription(Other.Arg) :
           /\ SameSort(Layout.Desc, Copy, Other.Arg, OtherCopy)
           /\ m_Desc' = Copy
           /\ Layout' = [Layout EXCEPT !.pc = "Constructed", !.i = Len(Copy.Resources), !.L = CreateLayout(Copy)]
           /\ LayoutMembers(CreateLayout(Copy))
           /\ m_Hash' = CalculateHash(Copy, CreateLayout(Copy).ResourceAttribs)
           /\ Other' = [Exists |-> TRUE, Arg |-> Other.Arg, Desc |-> OtherCopy,
                        ResourceAttribs |-> CreateLayout(OtherCopy).ResourceAttribs,
                        Hash |-> CalculateHash(OtherCopy, CreateLayout(OtherCopy).ResourceAttribs)]
    /\ StaticResCache' = IF HasStaticResources(Layout.Desc)
                         THEN InitializeCache(StaticResCacheTblSizes(Layout.Desc))
                         ELSE NoCache
    /\ last' = [NoOp EXCEPT !.op = "CreateSignatures"]
    /\ UNCHANGED <<envVars, SRBCache, bStaticResourcesInitialized, HandlerRuns, ub, log>>

This == Signature(m_Desc, m_pResourceAttribs, m_Hash)

\* IsCompatibleWith asked of the first signature about the second, of the second about
\* the first, and of the first about itself.
CompatIsCompatibleWith(Direction) ==
    /\ Layout.pc = "Constructed"
    /\ Other.Exists
    /\ last' = [op |-> "IsCompatibleWith", Direction |-> Direction,
                Result |-> CASE Direction = "ThisOther" -> IsCompatibleWith(This, Other, FALSE)
                             [] Direction = "OtherThis" -> IsCompatibleWith(Other, This, FALSE)
                             [] Direction = "ThisThis" -> IsCompatibleWith(This, This, TRUE)]
    /\ UNCHANGED <<sigVars, StaticResCache, SRBCache, bStaticResourcesInitialized, HandlerRuns, ub, log>>

CompatNext ==
    \/ CompatCreateSignatures
    \/ \E Direction \in {"ThisOther", "OtherThis", "ThisThis"} : CompatIsCompatibleWith(Direction)

CompatSpec == CompatInit /\ [][CompatNext]_vars

(***************************************************************************)
(* Properties of compatibility                                             *)
(***************************************************************************)
BothConstructed == Layout.pc = "Constructed" /\ Other.Exists

\* The second description is the first one with other resource names.
OnlyNamesDiffer == Other.Arg \in Renamings(Layout.Desc)

\* The two signatures have equal hashes and each reports the other compatible; the
\* answers callers have got say the same.
HashesEqualAndCompatible ==
    /\ m_Hash = Other.Hash
    /\ IsCompatibleWith(This, Other, FALSE)
    /\ IsCompatibleWith(Other, This, FALSE)
    /\ last.op = "IsCompatibleWith" => last.Result

\* Every sampler resource is replaced by the same immutable sampler, or by none, in
\* both signatures.
SameImmutableSamplerMatches ==
    \A i \in 1 .. Len(m_Desc.Resources) :
        m_Desc.Resources[i].ResourceType = "SAMPLER"
            => FindImmutableSampler(m_Desc.Resources[i], m_Desc, GetCombinedSamplerSuffix(m_Desc))
                   = FindImmutableSampler(Other.Desc.Resources[i], Other.Desc, GetCombinedSamplerSuffix(Other.Desc))

\* C21 (as stated): two signatures built from descriptions that are identical except
\* for resource names have equal hashes and are compatible in both directions.
C21_RenamedSignaturesCompatible ==
    (BothConstructed /\ OnlyNamesDiffer) => HashesEqualAndCompatible

\* C21 (amended): two signatures built from descriptions that are identical except for
\* resource names, where the renaming leaves every sampler resource with the same
\* immutable sampler or with none, have equal hashes and are compatible in both
\* directions.
C21_RenamedSameSamplersCompatible ==
    (BothConstructed /\ OnlyNamesDiffer /\ SameImmutableSamplerMatches) => HashesEqualAndCompatible

\* The second signature was asked about the first, whose two resources have other
\* names and whose texture is combined with its sampler, and has answered that they
\* are compatible.
C21_Witness ==
    /\ BothConstructed
    /\ OnlyNamesDiffer
    /\ SameImmutableSamplerMatches
    /\ Len(m_Desc.Resources) = 2
    /\ \A i \in 1 .. 2 : m_Desc.Resources[i].Name # Other.Desc.Resources[i].Name
    /\ \E i \in 1 .. 2 : IsCombinedWithSampler(m_pResourceAttribs[i])
    /\ last.op = "IsCompatibleWith"
    /\ last.Direction = "OtherThis"
    /\ last.Result

\* What IsCompatibleWith compares besides the hashes.
AttributesAgree(A, B) ==
    /\ A.Desc.BindingIndex = B.Desc.BindingIndex
    /\ Len(A.Desc.Resources) = Len(B.Desc.Resources)
    /\ Len(A.Desc.ImmutableSamplers) = Len(B.Desc.ImmutableSamplers)
    /\ \A r \in 1 .. Min(Len(A.Desc.Resources), Len(B.Desc.Resources)) :
           /\ A.Desc.Resources[r].ShaderStages = B.Desc.Resources[r].ShaderStages
           /\ A.Desc.Resources[r].ArraySize = B.Desc.Resources[r].ArraySize
           /\ A.Desc.Resources[r].ResourceType = B.Desc.Resources[r].ResourceType
           /\ A.Desc.Resources[r].VarType = B.Desc.Resources[r].VarType
           /\ A.Desc.Resources[r].Flags = B.Desc.Resources[r].Flags
           /\ A.ResourceAttribs[r].Register = B.ResourceAttribs[r].Register
           /\ A.ResourceAttribs[r].Space = B.ResourceAttribs[r].Space
           /\ A.ResourceAttribs[r].SRBRootIndex = B.ResourceAttribs[r].SRBRootIndex
           /\ A.ResourceAttribs[r].SRBOffsetFromTableStart = B.ResourceAttribs[r].SRBOffsetFromTableStart
           /\ A.ResourceAttribs[r].ImtblSamplerAssigned = B.ResourceAttribs[r].ImtblSamplerAssigned
    /\ \A k \in 1 .. Min(Len(A.Desc.ImmutableSamplers), Len(B.Desc.ImmutableSamplers)) :
           /\ A.Desc.ImmutableSamplers[k].ShaderStages = B.Desc.ImmutableSamplers[k].ShaderStages
           /\ A.Desc.ImmutableSamplers[k].Desc = B.Desc.ImmutableSamplers[k].Desc

\* The second description is the first one with the array size of one resource changed.
OneArraySizeChanged ==
    \E i \in 1 .. Len(Layout.Desc.Resources) :
        Other.Arg = [Layout.Desc EXCEPT !.Resources[i].ArraySize = (@ % MaxArraySize) + 1]

\* C22: IsCompatibleWith is true exactly when the hashes, the binding indices, the
\* counts, and, index by index, the resources' stages, array size, kind, class, flags,
\* bind point, space, binding-context root index and offset and immutable-sampler flag
\* and the immutable samplers' stages and state agree; a changed array size makes two
\* otherwise identical signatures incompatible; signatures whose attributes other than
\* names all agree have equal hashes.
C22_CompatibleIffAttributesAgree ==
    BothConstructed
        => /\ IsCompatibleWith(This, Other, FALSE) <=> (m_Hash = Other.Hash /\ AttributesAgree(This, Other))
           /\ IsCompatibleWith(Other, This, FALSE) <=> (Other.Hash = m_Hash /\ AttributesAgree(Other, This))
           /\ (last.op = "IsCompatibleWith" /\ last.Direction # "ThisThis")
                  => (last.Result <=> (m_Hash = Other.Hash /\ AttributesAgree(This, Other)))
           /\ OneArraySizeChanged
                  => ~IsCompatibleWith(This, Other, FALSE) /\ ~IsCompatibleWith(Other, This, FALSE)
           /\ AttributesAgree(This, Other) => m_Hash = Other.Hash

\* A signature was asked about one that differs from it in the array size of one
\* resource and nothing else, and has answered that they are not compatible.
C22_Witness ==
    /\ BothConstructed
    /\ OneArraySizeChanged
    /\ last.op = "IsCompatibleWith"
    /\ last.Direction = "ThisOther"
    /\ ~last.Result

(***************************************************************************)
(* Resource states.  c is the command context with the device behind it:   *)
(* States are the resource states, Cmds the commands recorded, log the     *)
(* diagnostics.                                                            *)
(***************************************************************************)
IsInKnownState(States, r) == States[r] # RESOURCE_STATE_UNKNOWN
CheckState(States, r, State) == States[r] = State
CheckAnyState(States, r, StateSet) == States[r] \in StateSet

\* CommandContext::TransitionResource(pResource, NewState): the call is recorded and
\* the resource is in NewState afterwards.
CtxTransitionResource(c, r, NewState) ==
    [c EXCEPT !.States[r] = NewState,
              !.Cmds = Append(@, [cmd |-> "TransitionResource", pResource |-> r, NewState |-> NewState])]

\* TransitionResource(Ctx, Res, RangeType)
TransitionResource(c, CachedRes, RangeType) ==
    LET r == DeviceResourceOf(CachedRes.pObject)
    IN  CASE CachedRes.Type = "CONSTANT_BUFFER" ->
                 IF IsInKnownState(c.States, r) /\ ~CheckState(c.States, r, "CONSTANT_BUFFER")
                 THEN CtxTransitionResource(c, r, "CONSTANT_BUFFER") ELSE c
          [] CachedRes.Type = "BUFFER_SRV" ->
                 IF IsInKnownState(c.States, r) /\ ~CheckState(c.States, r, "SHADER_RESOURCE")
                 THEN CtxTransitionResource(c, r, "SHADER_RESOURCE") ELSE c
          [] CachedRes.Type = "BUFFER_UAV" ->
                 IF IsInKnownState(c.States, r)
                 THEN CtxTransitionResource(c, r, "UNORDERED_ACCESS") ELSE c
          [] CachedRes.Type = "TEXTURE_SRV" ->
                 IF IsInKnownState(c.States, r) /\ ~CheckAnyState(c.States, r, {"SHADER_RESOURCE", "INPUT_ATTACHMENT"})
                 THEN CtxTransitionResource(c, r, "SHADER_RESOURCE") ELSE c
          [] CachedRes.Type = "TEXTURE_UAV" ->
                 IF IsInKnownState(c.States, r)
                 THEN CtxTransitionResource(c, r, "UNORDERED_ACCESS") ELSE c
          [] CachedRes.Type = "SAMPLER" -> c
          [] CachedRes.Type = "ACCEL_STRUCT" ->
                 IF IsInKnownState(c.States, r)
                 THEN CtxTransitionResource(c, r, "RAY_TRACING") ELSE c
          [] OTHER -> c

\* LOG_ERROR_MESSAGE of DvpVerifyResourceState: resource r must be in state State.
WrongState(c, r, State) == [c EXCEPT !.log = @ \cup {<<"must be in state", r, State>>}]

\* DvpVerifyResourceState(Res, RangeType)
DvpVerifyResourceState(c, CachedRes, RangeType) ==
    LET r == DeviceResourceOf(CachedRes.pObject)
    IN  CASE CachedRes.Type = "CONSTANT_BUFFER" ->
                 IF IsInKnownState(c.States, r) /\ ~CheckState(c.States, r, "CONSTANT_BUFFER")
                 THEN WrongState(c, r, "CONSTANT_BUFFER") ELSE c
          [] CachedRes.Type = "BUFFER_SRV" ->
                 IF IsInKnownState(c.States, r) /\ ~CheckState(c.States, r, "SHADER_RESOURCE")
                 THEN WrongState(c, r, "SHADER_RESOURCE") ELSE c
          [] CachedRes.Type = "BUFFER_UAV" ->
                 IF IsInKnownState(c.States, r) /\ ~CheckState(c.States, r, "UNORDERED_ACCESS")
                 THEN WrongState(c, r, "UNORDERED_ACCESS") ELSE c
          [] CachedRes.Type = "TEXTURE_SRV" ->
                 IF IsInKnownState(c.States, r) /\ ~CheckAnyState(c.States, r, {"SHADER_RESOURCE", "INPUT_ATTACHMENT"})
                 THEN WrongState(c, r, "SHADER_RESOURCE") ELSE c
          [] CachedRes.Type = "TEXTURE_UAV" ->
                 IF IsInKnownState(c.States, r) /\ ~CheckState(c.States, r, "UNORDERED_ACCESS")
                 THEN WrongState(c, r, "UNORDERED_ACCESS") ELSE c
          [] CachedRes.Type = "SAMPLER" -> c
          [] CachedRes.Type = "ACCEL_STRUCT" ->
                 IF IsInKnownState(c.States, r) /\ ~CheckState(c.States, r, "RAY_TRACING")
                 THEN WrongState(c, r, "RAY_TRACING") ELSE c
          [] OTHER -> c

RECURSIVE Flatten(_)
Flatten(seqs) == IF seqs = << >> THEN << >> ELSE Head(seqs) \o Flatten(Tail(seqs))

\* ProcessCachedTableResources: the descriptors of a root table in the order of its
\* ranges, each with its offset from the table start and its range type.
CachedTableResources(RootTable) ==
    Flatten([r \in 1 .. Len(RootTable.Ranges) |->
                [d \in 1 .. RootTable.Ranges[r].NumDescriptors |->
                    [RootInd |-> RootTable.RootIndex,
                     OffsetFromTableStart |-> RootTable.Ranges[r].OffsetInDescriptorsFromTableStart + d - 1,
                     RangeType |-> RootTable.Ranges[r].RangeType]]])

\* ProcessRootTables: the descriptors of all root tables in the order of the tables.
RootTableResources(RootParams) ==
    Flatten([rt \in 1 .. GetNumRootTables(RootParams) |-> CachedTableResources(RootParams.RootTables[rt])])

RECURSIVE TransitionResourcesFrom(_, _, _, _, _, _)
\* The loops of TransitionResources from descriptor k of Descriptors on.
TransitionResourcesFrom(ResourceCache, c, Descriptors, k, PerformResourceTransitions, ValidateStates) ==
    IF k > Len(Descriptors) THEN c
    ELSE LET CachedRes == ResourceCache.Tables[Descriptors[k].RootInd + 1][Descriptors[k].OffsetFromTableStart + 1]
         IN  TransitionResourcesFrom(
                 ResourceCache,
                 IF PerformResourceTransitions THEN TransitionResource(c, CachedRes, Descriptors[k].RangeType)
                 ELSE IF ValidateStates THEN DvpVerifyResourceState(c, CachedRes, Descriptors[k].RangeType)
                 ELSE c,
                 Descriptors, k + 1, PerformResourceTransitions, ValidateStates)

\* TransitionResources(ResourceCache, Ctx, PerformResourceTransitions, ValidateStates)
TransitionResources(RootParams, ResourceCache, c, PerformResourceTransitions, ValidateStates) ==
    TransitionResourcesFrom(ResourceCache, c, RootTableResources(RootParams), 1,
                            PerformResourceTransitions, ValidateStates)

(***************************************************************************)
(* Descriptor heap allocations and CommitRootTables                        *)
(***************************************************************************)
\* AllocateGPUDescriptors / AllocateDynamicGPUVisibleDescriptor: Count handles of the
\* heap, or the null allocation when the heap is exhausted.
AllocateGPUDescriptors(pDescriptorHeap, Count, Exhausted) ==
    IF Exhausted THEN NullAllocation ELSE [pDescriptorHeap |-> pDescriptorHeap, NumHandles |-> Count]

\* DescriptorHeapAllocation::GetCpuHandle / GetGpuHandle(Offset)
GetHandle(Allocation, Offset) == [pDescriptorHeap |-> Allocation.pDescriptorHeap, Offset |-> Offset]

\* DEV_CHECK_ERR of a failed allocation: a diagnostic, nothing else.
DevCheckAllocation(Allocation, Msg) == IF Allocation = NullAllocation THEN {<<Msg, -1, -1>>} ELSE {}

\* State of CommitRootTables between two root tables.
CommitStart(Cmds) == [Cmds |-> Cmds, log |-> {}, DynamicCbvSrvUavTblOffset |-> 0, DynamicSamplerTblOffset |-> 0]

RECURSIVE CommitTableResources(_, _, _, _, _, _, _, _)
\* The ProcessCachedTableResources call of CommitRootTables from descriptor k on.
CommitTableResources(a, ResourceCache, Descriptors, k, IsDynamicTable, IsResourceTable, DynamicCbvSrvUavDescriptors, DynamicSamplerDescriptors) ==
    IF k > Len(Descriptors) THEN a
    ELSE LET CachedRes == ResourceCache.Tables[Descriptors[k].RootInd + 1][Descriptors[k].OffsetFromTableStart + 1]
             Dst == IF IsResourceTable
                    THEN GetHandle(DynamicCbvSrvUavDescriptors, a.DynamicCbvSrvUavTblOffset)
                    ELSE GetHandle(DynamicSamplerDescriptors, a.DynamicSamplerTblOffset)
             a1 == IF ~IsDynamicTable THEN a
                   ELSE [a EXCEPT
                            !.Cmds = IF CachedRes.CPUDescriptorHandle # 0
                                     THEN Append(@, [cmd |-> "CopyDescriptorsSimple", Dst |-> Dst,
                                                     Src |-> CachedRes.CPUDescriptorHandle])
                                     ELSE @,
                            !.log = IF CachedRes.CPUDescriptorHandle # 0 THEN @
                                    ELSE @ \cup {<<"No valid descriptor handle", Descriptors[k].RootInd,
                                                   Descriptors[k].OffsetFromTableStart>>},
                            !.DynamicCbvSrvUavTblOffset = IF IsResourceTable THEN @ + 1 ELSE @,
                            !.DynamicSamplerTblOffset = IF IsResourceTable THEN @ ELSE @ + 1]
         IN  CommitTableResources(a1, ResourceCache, Descriptors, k + 1, IsDynamicTable, IsResourceTable,
                                  DynamicCbvSrvUavDescriptors, DynamicSamplerDescriptors)

RECURSIVE CommitTables(_, _, _, _, _, _, _)
\* The ProcessRootTables call of CommitRootTables from root table rt on.
CommitTables(a, RootParams, ResourceCache, CacheHeapSpace, rt, DynamicCbvSrvUavDescriptors, DynamicSamplerDescriptors) ==
    IF rt >= GetNumRootTables(RootParams) THEN a
    ELSE LET RootTable == RootParams.RootTables[rt + 1]
             RootInd == RootTable.RootIndex
             IsResourceTable == RootTable.Ranges[1].RangeType # D3D12_DESCRIPTOR_RANGE_TYPE_SAMPLER
             IsDynamicTable == RootTable.RootType = ROOT_TYPE_DYNAMIC
             RootTableGPUDescriptorHandle ==
                 IF IsDynamicTable
                 THEN IF IsResourceTable
                      THEN GetHandle(DynamicCbvSrvUavDescriptors, a.DynamicCbvSrvUavTblOffset)
                      ELSE GetHandle(DynamicSamplerDescriptors, a.DynamicSamplerTblOffset)
                 ELSE IF IsResourceTable
                      THEN GetHandle(CacheHeapSpace.SrvCbvUav, ResourceCache.TableStartOffset[RootInd + 1])
                      ELSE GetHandle(CacheHeapSpace.Sampler, ResourceCache.TableStartOffset[RootInd + 1])
             a1 == [a EXCEPT !.Cmds = Append(@, [cmd |-> "SetRootDescriptorTable", RootIndex |-> RootInd,
                                                 BaseDescriptor |-> RootTableGPUDescriptorHandle])]
         IN  CommitTables(CommitTableResources(a1, ResourceCache, CachedTableResources(RootTable), 1,
                                               IsDynamicTable, IsResourceTable,
                                               DynamicCbvSrvUavDescriptors, DynamicSamplerDescriptors),
                          RootParams, ResourceCache, CacheHeapSpace, rt + 1,
                          DynamicCbvSrvUavDescriptors, DynamicSamplerDescriptors)

RECURSIVE CommitViews_Always(_, _, _, _, _)
\* A root-view loop of CommitRootTables that sets the view of every bound buffer.
CommitViews_Always(Cmds, RootParams, ResourceCache, rv, IsDynamic) ==
    IF rv >= GetNumRootViews(RootParams) THEN Cmds
    ELSE LET RootInd == RootParams.RootViews[rv + 1].RootIndex
             CachedRes == ResourceCache.Tables[RootInd + 1][1]
         IN  CommitViews_Always(IF CachedRes.pObject # NullObj
                                THEN Append(Cmds, [cmd |-> "SetRootConstantBufferView", RootIndex |-> RootInd,
                                                   pBuffer |-> CachedRes.pObject])
                                ELSE Cmds,
                                RootParams, ResourceCache, rv + 1, IsDynamic)

RECURSIVE CommitViews(_, _, _, _, _)
\* The root-view loop of CommitRootTables from root view rv on; IsDynamic[rv] is what
\* GetDesc().Usage == USAGE_DYNAMIC reads through the BufferD3D12Impl pointer.
CommitViews(Cmds, RootParams, ResourceCache, rv, IsDynamic) ==
    IF rv >= GetNumRootViews(RootParams) THEN Cmds
    ELSE LET RootInd == RootParams.RootViews[rv + 1].RootIndex
             CachedRes == ResourceCache.Tables[RootInd + 1][1]
         IN  CommitViews(IF CachedRes.pObject # NullObj /\ ~IsDynamic[rv]
                         THEN Append(Cmds, [cmd |-> "SetRootConstantBufferView", RootIndex |-> RootInd,
                                            pBuffer |-> CachedRes.pObject])
                         ELSE Cmds,
                         RootParams, ResourceCache, rv + 1, IsDynamic)

\* CommitRootTables(ResourceCache, CmdCtx, ...) with the outcomes of its two dynamic
\* allocations: the commands recorded and the diagnostics.
CommitRootTables(RootParams, TotalSlots, ResourceCache, CacheHeapSpace, SrvCbvUavExhausted, SamplerExhausted, IsDynamic) ==
    LET NumDynamicCbvSrvUavDescriptors == TotalSlots.SrvCbvUav[ROOT_TYPE_DYNAMIC]
        NumDynamicSamplerDescriptors == TotalSlots.Sampler[ROOT_TYPE_DYNAMIC]
        DynamicCbvSrvUavDescriptors ==
            IF NumDynamicCbvSrvUavDescriptors > 0
            THEN AllocateGPUDescriptors("GPUSrvCbvUavHeap", NumDynamicCbvSrvUavDescriptors, SrvCbvUavExhausted)
            ELSE NullAllocation
        DynamicSamplerDescriptors ==
            IF NumDynamicSamplerDescriptors > 0
            THEN AllocateGPUDescriptors("GPUSamplerHeap", NumDynamicSamplerDescriptors, SamplerExhausted)
            ELSE NullAllocation
        AllocLog ==
            (IF NumDynamicCbvSrvUavDescriptors > 0
             THEN DevCheckAllocation(DynamicCbvSrvUavDescriptors, "Failed to allocate dynamic CBV/SRV/UAV descriptors")
             ELSE {})
            \cup (IF NumDynamicSamplerDescriptors > 0
                  THEN DevCheckAllocation(DynamicSamplerDescriptors, "Failed to allocate dynamic Sampler descriptors")
                  ELSE {})
        pSamplerHeap == IF CacheHeapSpace.Sampler.pDescriptorHeap = "nullptr"
                        THEN DynamicSamplerDescriptors.pDescriptorHeap
                        ELSE CacheHeapSpace.Sampler.pDescriptorHeap
        pSrvCbvUavHeap == IF CacheHeapSpace.SrvCbvUav.pDescriptorHeap = "nullptr"
                          THEN DynamicCbvSrvUavDescriptors.pDescriptorHeap
                          ELSE CacheHeapSpace.SrvCbvUav.pDescriptorHeap
        Cmds0 == IF pSrvCbvUavHeap # "nullptr" \/ pSamplerHeap # "nullptr"
                 THEN <<[cmd |-> "SetDescriptorHeaps", pSrvCbvUavHeap |-> pSrvCbvUavHeap,
                         pSamplerHeap |-> pSamplerHeap]>>
                 ELSE << >>
        a == CommitTables(CommitStart(Cmds0), RootParams, ResourceCache, CacheHeapSpace, 0,
                          DynamicCbvSrvUavDescriptors, DynamicSamplerDescriptors)
    IN  [Cmds |-> CommitViews(a.Cmds, RootParams, ResourceCache, 0, IsDynamic),
         log |-> AllocLog \cup a.log,
         DynamicCbvSrvUavDescriptors |-> DynamicCbvSrvUavDescriptors,
         DynamicSamplerDescriptors |-> DynamicSamplerDescriptors]

(***************************************************************************)
(* A shader resource binding in use by a device context: its cache is      *)
(* created, resources are bound, and the context transitions or verifies   *)
(* the resource states and commits the root tables.                        *)
(***************************************************************************)
\* A root-view constant buffer and a dynamic sampler.
DescRootViewCB ==
    SignatureDesc(<<Res(<<"g_CB">>, {"PIXEL"}, 1, "CONSTANT_BUFFER", MUTABLE, {}),
                    Res(<<"g_Sam">>, {"PIXEL"}, 1, "SAMPLER", DYNAMIC, {})>>,
                  << >>, FALSE)

\* A dynamic unordered-access view of a formatted buffer and a mutable texture.
DescBufferUAV ==
    SignatureDesc(<<Res(<<"g_RWBuf">>, {"PIXEL"}, 1, "BUFFER_UAV", DYNAMIC, {"FORMATTED_BUFFER"}),
                    Res(<<"g_Tex">>, {"PIXEL"}, 1, "TEXTURE_SRV", MUTABLE, {})>>,
                  << >>, FALSE)

\* A mutable unordered-access view of a texture and a dynamic acceleration structure.
DescTextureUAV ==
    SignatureDesc(<<Res(<<"g_RWTex">>, {"PIXEL"}, 1, "TEXTURE_UAV", MUTABLE, {}),
                    Res(<<"g_TLAS">>, {"PIXEL"}, 1, "ACCEL_STRUCT", DYNAMIC, {})>>,
                  << >>, FALSE)

\* A formatted buffer in a table and a root-view structured buffer.
DescBuffers ==
    SignatureDesc(<<Res(<<"g_Buf">>, {"PIXEL"}, 1, "BUFFER_SRV", MUTABLE, {"FORMATTED_BUFFER"}),
                    Res(<<"g_RWStruct">>, {"PIXEL"}, 1, "BUFFER_UAV", DYNAMIC, {})>>,
                  << >>, FALSE)

\* A mutable sampler and a dynamic constant buffer in a table.
DescMutableSampler ==
    SignatureDesc(<<Res(<<"g_Sam">>, {"PIXEL"}, 1, "SAMPLER", MUTABLE, {}),
                    Res(<<"g_CBTbl">>, {"PIXEL"}, 1, "CONSTANT_BUFFER", DYNAMIC, {"NO_DYNAMIC_BUFFERS"})>>,
                  << >>, FALSE)

CtxDescs == {DescRootViewCB, DescBufferUAV, DescTextureUAV, DescBuffers, DescMutableSampler}

\* The object the application binds to a variable of the given type.
CtxObject(ResourceType) ==
    CASE ResourceType = "CONSTANT_BUFFER" -> "BufDef"
      [] ResourceType = "BUFFER_UAV" -> "BvA"
      [] ResourceType = "BUFFER_SRV" -> "BvB"
      [] ResourceType = "TEXTURE_SRV" -> "TexA"
      [] ResourceType = "TEXTURE_UAV" -> "TexUav"
      [] ResourceType = "SAMPLER" -> "SamA"
      [] ResourceType = "ACCEL_STRUCT" -> "TlasA"

\* The states the application may have left a resource in.
CtxStates(r) ==
    CASE r = "BufDef" -> {RESOURCE_STATE_UNKNOWN, "CONSTANT_BUFFER", "COPY_DEST"}
      [] r = "BufferA" -> {RESOURCE_STATE_UNKNOWN, "UNORDERED_ACCESS", "COPY_DEST"}
      [] r = "BufferB" -> {RESOURCE_STATE_UNKNOWN, "SHADER_RESOURCE", "COPY_DEST"}
      [] r = "TextureA" -> {RESOURCE_STATE_UNKNOWN, "SHADER_RESOURCE", "INPUT_ATTACHMENT", "RENDER_TARGET"}
      [] r = "TextureUav" -> {RESOURCE_STATE_UNKNOWN, "UNORDERED_ACCESS", "RENDER_TARGET"}
      [] r = "TlasA" -> {RESOURCE_STATE_UNKNOWN, "RAY_TRACING", "BUILD_AS_WRITE"}
      [] OTHER -> {RESOURCE_STATE_UNKNOWN}

\* The resources behind the objects bound to the resources of the description.
CtxResources(Desc) ==
    {DeviceResourceOf(CtxObject(Desc.Resources[i].ResourceType)) : i \in 1 .. Len(Desc.Resources)} \ {"SamA"}

\* The signature is constructed; no shader resource binding exists yet.
CtxInit ==
    \E Desc \in CtxDescs :
        \E Copy \in CopyDescription(Desc) :
            LET L == CreateLayout(Copy)
            IN  /\ m_Desc = Copy
                /\ m_pResourceAttribs = L.ResourceAttribs
                /\ m_ImmutableSamplers = L.ImmutableSamplers
                /\ m_RootParams = L.RootParams
                /\ m_TotalSlots = [SrvCbvUav |-> L.TotalSrvCbvUavSlots,
                                   Sampler |-> L.TotalSamplerSlots]
                /\ m_Hash = CalculateHash(Copy, L.ResourceAttribs)
                /\ Other = NoSignature
                /\ \E States \in [CtxResources(Desc) -> UNION {CtxStates(r) : r \in CtxResources(Desc)}] :
                       /\ \A r \in CtxResources(Desc) : States[r] \in CtxStates(r)
                       /\ ResourceStates = [r \in DeviceResources |->
                                               IF r \in CtxResources(Desc) THEN States[r]
                                               ELSE RESOURCE_STATE_UNKNOWN]
                /\ CmdCtx = << >>
                /\ HeapSpace = [SrvCbvUav |-> NullAllocation, Sampler |-> NullAllocation]
                /\ Life = NoLife
                /\ SRBCacheB = NoCache
                /\ Threads = NoThreads
                /\ DescriptorWrites = << >>
                /\ ShaderVar = NoShaderVar
                /\ Layout = [Desc |-> Desc, pc |-> "Constructed", i |-> Len(Copy.Resources), L |-> L]
                /\ StaticResCache = NoCache
                /\ SRBCache = NoCache
                /\ bStaticResourcesInitialized = FALSE
                /\ HandlerRuns = 0
                /\ ub = FALSE
                /\ last = NoOp
                /\ log = {}

\* What the context operations leave alone.
ctxFrame == <<m_Desc, m_pResourceAttribs, m_ImmutableSamplers, m_RootParams, m_TotalSlots, m_Hash, Other, Layout,
              Life, SRBCacheB, Threads, DescriptorWrites, ShaderVar,
              StaticResCache, bStaticResourcesInitialized, HandlerRuns, ub>>

\* InitSRBResourceCache(ResourceCache, ...) with the outcomes of its two allocations.
CtxInitSRBResourceCache(SrvCbvUavExhausted, SamplerExhausted) ==
    LET TotalSrvCbvUavDescriptors == m_TotalSlots.SrvCbvUav[ROOT_TYPE_STATIC]
        TotalSamplerDescriptors == m_TotalSlots.Sampler[ROOT_TYPE_STATIC]
        CbcSrvUavHeapSpace == IF TotalSrvCbvUavDescriptors # 0
                              THEN AllocateGPUDescriptors("GPUSrvCbvUavHeap", TotalSrvCbvUavDescriptors, SrvCbvUavExhausted)
                              ELSE NullAllocation
        SamplerHeapSpace == IF TotalSamplerDescriptors # 0
                            THEN AllocateGPUDescriptors("GPUSamplerHeap", TotalSamplerDescriptors, SamplerExhausted)
                            ELSE NullAllocation
    IN  /\ ~SRBCache.Exists
        /\ SrvCbvUavExhausted => TotalSrvCbvUavDescriptors # 0
        /\ SamplerExhausted => TotalSamplerDescriptors # 0
        /\ SRBCache' = InitSRBResourceCache(m_RootParams)
        /\ HeapSpace' = [SrvCbvUav |-> CbcSrvUavHeapSpace, Sampler |-> SamplerHeapSpace]
        /\ log' = (IF TotalSrvCbvUavDescriptors # 0
                   THEN DevCheckAllocation(CbcSrvUavHeapSpace, "Failed to allocate GPU-visible CBV/SRV/UAV descriptors")
                   ELSE {})
                  \cup (IF TotalSamplerDescriptors # 0
                        THEN DevCheckAllocation(SamplerHeapSpace, "Failed to allocate GPU-visible Sampler descriptors")
                        ELSE {})
        /\ last' = [op |-> "InitSRBResourceCache", SrvCbvUavExhausted |-> SrvCbvUavExhausted,
                    SamplerExhausted |-> SamplerExhausted, Thrown |-> FALSE]
        /\ UNCHANGED <<ctxFrame, ResourceStates, CmdCtx>>

\* TransitionResources(ResourceCache, Ctx, PerformResourceTransitions, ValidateStates)
CtxTransitionResources(PerformResourceTransitions, ValidateStates) ==
    /\ ~ub
    /\ SRBCache.Exists
    /\ LET c == TransitionResources(m_RootParams, SRBCache, [States |-> ResourceStates, Cmds |-> << >>, log |-> {}],
                                    PerformResourceTransitions, ValidateStates)
       IN  /\ ResourceStates' = c.States
           /\ CmdCtx' = c.Cmds
           /\ log' = c.log
    /\ last' = [op |-> "TransitionResources", PerformResourceTransitions |-> PerformResourceTransitions,
                ValidateStates |-> ValidateStates, States |-> ResourceStates]
    /\ UNCHANGED <<ctxFrame, SRBCache, HeapSpace>>

\* CommitRootTables(ResourceCache, CmdCtx, ...) with the outcomes of its allocations.
CtxCommitRootTables(SrvCbvUavExhausted, SamplerExhausted) ==
    /\ ~ub
    /\ SRBCache.Exists
    /\ SrvCbvUavExhausted => m_TotalSlots.SrvCbvUav[ROOT_TYPE_DYNAMIC] > 0
    /\ SamplerExhausted => m_TotalSlots.Sampler[ROOT_TYPE_DYNAMIC] > 0
    /\ \E IsDynamic \in [0 .. GetNumRootViews(m_RootParams) - 1 -> BOOLEAN] :
           /\ \A rv \in DOMAIN IsDynamic :
                  LET o == SRBCache.Tables[m_RootParams.RootViews[rv + 1].RootIndex + 1][1].pObject
                  IN  o # NullObj => IsDynamic[rv] \in UsageDynamicOutcomes(o)
           /\ \A rv \in DOMAIN IsDynamic :
                  SRBCache.Tables[m_RootParams.RootViews[rv + 1].RootIndex + 1][1].pObject = NullObj
                      => ~IsDynamic[rv]
           /\ LET out == CommitRootTables(m_RootParams, m_TotalSlots, SRBCache, HeapSpace,
                                          SrvCbvUavExhausted, SamplerExhausted, IsDynamic)
              IN  /\ CmdCtx' = out.Cmds
                  /\ log' = out.log
                  /\ last' = [op |-> "CommitRootTables", SrvCbvUavExhausted |-> SrvCbvUavExhausted,
                              SamplerExhausted |-> SamplerExhausted, Thrown |-> FALSE,
                              DynamicCbvSrvUavDescriptors |-> out.DynamicCbvSrvUavDescriptors,
                              DynamicSamplerDescriptors |-> out.DynamicSamplerDescriptors]
    /\ UNCHANGED <<ctxFrame, SRBCache, ResourceStates, HeapSpace>>

CtxNext ==
    \/ \E SrvCbvUavExhausted \in BOOLEAN, SamplerExhausted \in BOOLEAN :
           CtxInitSRBResourceCache(SrvCbvUavExhausted, SamplerExhausted)
    \/ \E ResIndex \in ResIndices :
           \E pObj \in {NullObj, CtxObject(m_Desc.Resources[ResIndex + 1].ResourceType)} :
               BindResource(CacheContentType_SRB, ResIndex, 0, pObj)
    \/ \E PerformResourceTransitions \in BOOLEAN, ValidateStates \in BOOLEAN :
           CtxTransitionResources(PerformResourceTransitions, ValidateStates)
    \/ \E SrvCbvUavExhausted \in BOOLEAN, SamplerExhausted \in BOOLEAN :
           CtxCommitRootTables(SrvCbvUavExhausted, SamplerExhausted)

CtxSpec == CtxInit /\ [][CtxNext]_vars

(***************************************************************************)
(* Properties of TransitionResources                                       *)
(***************************************************************************)
\* The states a cached resource of the given type may be used in.
RequiredStates(Type) ==
    CASE Type = "CONSTANT_BUFFER" -> {"CONSTANT_BUFFER"}
      [] Type = "BUFFER_SRV" -> {"SHADER_RESOURCE"}
      [] Type = "TEXTURE_SRV" -> {"SHADER_RESOURCE", "INPUT_ATTACHMENT"}
      [] Type \in {"BUFFER_UAV", "TEXTURE_UAV"} -> {"UNORDERED_ACCESS"}
      [] Type = "ACCEL_STRUCT" -> {"RAY_TRACING"}
      [] OTHER -> {}

\* The slots of the SRB cache that hold an object with a resource state, as
\* <<root index, offset>>.
BoundSlots ==
    {sl \in Slots(SRBCache) :
        /\ SRBCache.Tables[sl[1] + 1][sl[2] + 1].pObject # NullObj
        /\ SRBCache.Tables[sl[1] + 1][sl[2] + 1].Type # "SAMPLER"}

SlotType(sl) == SRBCache.Tables[sl[1] + 1][sl[2] + 1].Type
SlotResource(sl) == DeviceResourceOf(SRBCache.Tables[sl[1] + 1][sl[2] + 1].pObject)

\* The slots that belong to root views and to root tables.
RootViewSlots == {sl \in BoundSlots : \E rv \in 1 .. GetNumRootViews(m_RootParams) :
                                          m_RootParams.RootViews[rv].RootIndex = sl[1]}
RootTableSlots == BoundSlots \ RootViewSlots

Transitioned == last.op = "TransitionResources" /\ last.PerformResourceTransitions

\* C24: after TransitionResources in transition mode every object bound anywhere in the
\* cache whose state is known, the constant buffers of root-view slots included, is in
\* the state its resource kind requires.
C24_AllBoundInRequiredState ==
    Transitioned =>
        \A sl \in BoundSlots :
            IsInKnownState(ResourceStates, SlotResource(sl))
                => ResourceStates[SlotResource(sl)] \in RequiredStates(SlotType(sl))

\* What TransitionResources does reach: the objects bound in root tables.
TablesInRequiredState ==
    Transitioned =>
        \A sl \in RootTableSlots :
            IsInKnownState(ResourceStates, SlotResource(sl))
                => ResourceStates[SlotResource(sl)] \in RequiredStates(SlotType(sl))

\* The resources the last TransitionResources call issued a transition for, with the
\* new state.
TransitionsIssued == {<<CmdCtx[k].pResource, CmdCtx[k].NewState>> : k \in 1 .. Len(CmdCtx)}

\* Every object of a UAV slot in S whose state was known got a transition to the
\* unordered-access state, whatever the state was.
UAVsTransitioned(S) ==
    \A sl \in S :
        (SlotType(sl) \in {"BUFFER_UAV", "TEXTURE_UAV"} /\ IsInKnownState(last.States, SlotResource(sl)))
            => <<SlotResource(sl), "UNORDERED_ACCESS">> \in TransitionsIssued

\* A constant buffer or shader resource view got a transition only when its state was
\* known and not the required one.
ReadOnlyTransitionedWhenNeeded ==
    \A sl \in BoundSlots :
        (SlotType(sl) \in {"CONSTANT_BUFFER", "BUFFER_SRV", "TEXTURE_SRV"}
         /\ \E t \in TransitionsIssued : t[1] = SlotResource(sl))
            => /\ IsInKnownState(last.States, SlotResource(sl))
               /\ last.States[SlotResource(sl)] \notin RequiredStates(SlotType(sl))

\* No transition for a resource in unknown state or for a sampler.
NoTransitionOfUnknownOrSampler ==
    \A t \in TransitionsIssued :
        /\ t[1] \in DeviceResources
        /\ IsInKnownState(last.States, t[1])

\* C23: TransitionResources in transition mode issues a transition to the
\* unordered-access state for every bound buffer UAV and texture UAV whose state is
\* known, on every call, also when the object is in that state already; for constant
\* buffers and SRVs only when the state is known and not the required one; never for an
\* object in unknown state or for a sampler.
C23_UAVsAlwaysTransitioned ==
    Transitioned =>
        /\ UAVsTransitioned(BoundSlots)
        /\ ReadOnlyTransitionedWhenNeeded
        /\ NoTransitionOfUnknownOrSampler

\* The same for the objects TransitionResources reaches, those bound in root tables.
TableUAVsAlwaysTransitioned ==
    Transitioned =>
        /\ UAVsTransitioned(RootTableSlots)
        /\ ReadOnlyTransitionedWhenNeeded
        /\ NoTransitionOfUnknownOrSampler

\* The diagnostics DvpVerifyResourceState owes for the slots in S before the step.
DiagnosticsOwed(S) ==
    {<<"must be in state", SlotResource(sl), CHOOSE st \in RequiredStates(SlotType(sl)) : st # "INPUT_ATTACHMENT">> :
        sl \in {x \in S : /\ IsInKnownState(ResourceStates, SlotResource(x))
                          /\ ResourceStates[SlotResource(x)] \notin RequiredStates(SlotType(x))}}

ValidationStep(S) ==
    /\ (last'.op = "TransitionResources" /\ ~last'.PerformResourceTransitions /\ last'.ValidateStates)
           => /\ CmdCtx' = << >>
              /\ SRBCache' = SRBCache
              /\ ResourceStates' = ResourceStates
              /\ log' = DiagnosticsOwed(S)
    /\ (last'.op = "TransitionResources" /\ last'.PerformResourceTransitions)
           => \A d \in log' : d[1] # "must be in state"

\* C25: TransitionResources with doTransition = false and doValidate = true issues no
\* TransitionResource call, changes no cache entry and no resource state and reports a
\* diagnostic for exactly the bound objects that are in a known state which is not the
\* one their kind requires; with doTransition = true nothing is validated.
C25_ValidationOnlyReports == [][ValidationStep(BoundSlots)]_vars

\* The same with the diagnostics owed for the objects bound in root tables only.
TableValidationOnlyReports == [][ValidationStep(RootTableSlots)]_vars

(***************************************************************************)
(* Properties of the descriptor heap allocations                           *)
(***************************************************************************)
AllocationFailed == last.SrvCbvUavExhausted \/ last.SamplerExhausted

\* The commands of CommitRootTables that take a descriptor heap or a descriptor handle.
HeapCommands ==
    {k \in 1 .. Len(CmdCtx) :
        CmdCtx[k].cmd \in {"SetDescriptorHeaps", "SetRootDescriptorTable", "CopyDescriptorsSimple"}}

\* The root tables of the cache that have a start offset in a GPU-visible allocation.
TablesWithOffset == {t \in DOMAIN SRBCache.TableStartOffset : SRBCache.TableStartOffset[t] # InvalidDescriptorOffset}

\* C26: when a GPU-visible descriptor allocation of CommitRootTables or of
\* InitSRBResourceCache returns the null allocation, the operation fails: the failure
\* reaches the caller, and no descriptor heap is set, no root descriptor table is set, no
\* descriptor is copied and no table offset is recorded.
C26_AllocationFailureIsFatal ==
    /\ (last.op = "CommitRootTables" /\ AllocationFailed) => (last.Thrown /\ HeapCommands = {})
    /\ (last.op = "InitSRBResourceCache" /\ AllocationFailed) => (last.Thrown /\ TablesWithOffset = {})

(***************************************************************************)
(* Lifetime of a signature object: the constructor of                      *)
(* PipelineResourceSignatureBase, the body of the constructor of           *)
(* PipelineResourceSignatureD3D12Impl with its catch handler, Destruct of  *)
(* both classes and the two destructors.  The body is followed step by     *)
(* step; a step that ends in a call which reports failure by an exception  *)
(* takes the outcome of that call as its argument.  Every sub-object       *)
(* placed in the arena records whether its constructor ran and how often   *)
(* it was destroyed.                                                       *)
(*                                                                         *)
(* The constructor body and Destruct of the D3D12 class name the members   *)
(* m_pStaticResCache and m_StaticVarsMgrs.  The base class declares        *)
(* members of these names; the declaration of the D3D12 class decides      *)
(* whether it declares its own, which then hide the base's.  Both layouts  *)
(* are followed (Shadowed).                                                *)
(***************************************************************************)

\* Shader stages that have static resources (m_StaticResShaderStages, StaticResStages).
StaticResShaderStages(Desc) ==
    UNION {Desc.Resources[i].ShaderStages :
               i \in {j \in 1 .. Len(Desc.Resources) :
                         Desc.Resources[j].VarType = SHADER_RESOURCE_VARIABLE_TYPE_STATIC}}

GetNumStaticResStages(Desc) == Cardinality(StaticResShaderStages(Desc))

\* Index of the static variable manager of every stage: stages are extracted lowest
\* bit first and numbered from 0; a stage without static resources keeps -1.
StaticStageIndex(Desc) ==
    [s \in DOMAIN ShaderTypeBit |->
        IF s \in StaticResShaderStages(Desc)
        THEN Cardinality({q \in StaticResShaderStages(Desc) : ShaderTypeBit[q] < ShaderTypeBit[s]})
        ELSE -1]

NoStageIndex == [s \in DOMAIN ShaderTypeBit |-> -1]

\* Manager indices Idx >= 0 held by an index array.
ManagerIndices(StageIndex) == {StageIndex[s] : s \in DOMAIN StageIndex} \ {-1}

\* Memory in which no constructor has run, and the effect of running a destructor.
Unconstructed == [Constructed |-> FALSE, Destroyed |-> 0]
ConstructObj(o) == [o EXCEPT !.Constructed = TRUE]
DestroyObj(o) == [o EXCEPT !.Destroyed = @ + 1]

NullMembers == [m_StaticVarsMgrs |-> "nullptr", m_pStaticResCache |-> "nullptr"]

\* The object when the constructor of PipelineResourceSignatureBase is entered:
\* TDeviceObjectBase has copied the caller's description, pointers included.
LifeStart(Desc, Shadowed) ==
    [pc |-> "BaseConstructor", Desc |-> Desc, Shadowed |-> Shadowed, i |-> 0,
     DescPointers |-> "Caller",
     m_StaticResStageIndex |-> NoStageIndex,
     m_StaticVarIndex |-> NoStageIndex,
     Arena |-> "None", ArenaFrees |-> 0,
     m_pRawMemory |-> "nullptr",
     m_pResourceAttribs |-> "nullptr",
     m_ImmutableSamplers |-> "nullptr",
     ImmutableSamplerObjs |-> [k \in 1 .. Len(Desc.ImmutableSamplers) |-> Unconstructed],
     Base |-> NullMembers,
     Impl |-> NullMembers,
     StaticResCacheObj |-> Unconstructed,
     StaticVarsMgrObjs |-> [k \in 1 .. GetNumStaticResStages(Desc) |-> Unconstructed],
     m_IsDestructed |-> FALSE,
     Events |-> << >>]

\* The members m_pStaticResCache and m_StaticVarsMgrs as named in the D3D12 class.
ImplMembers(l) == IF l.Shadowed THEN l.Impl ELSE l.Base
SetImplMembers(l, M) == IF l.Shadowed THEN [l EXCEPT !.Impl = M] ELSE [l EXCEPT !.Base = M]

\* m_StaticVarsMgrs[Idx].Destroy(RawAllocator) and the destructor, for every Idx >= 0.
DestroyManagers(Objs, StageIndex) ==
    [k \in DOMAIN Objs |-> IF k - 1 \in ManagerIndices(StageIndex) THEN DestroyObj(Objs[k]) ELSE Objs[k]]

\* PipelineResourceSignatureBase::Destruct
BaseDestruct(l) ==
    LET l0 == [l EXCEPT !.Events = IF l.m_IsDestructed
                                   THEN @ \o <<"Base::Destruct", "VERIFY failed: already destructed">>
                                   ELSE Append(@, "Base::Destruct"),
                        !.DescPointers = "nullptr"]
        l1 == IF l0.Base.m_StaticVarsMgrs # "nullptr"
              THEN [l0 EXCEPT !.StaticVarsMgrObjs = DestroyManagers(@, l0.m_StaticResStageIndex),
                              !.Base.m_StaticVarsMgrs = "nullptr"]
              ELSE l0
        l2 == IF l1.Base.m_pStaticResCache # "nullptr"
              THEN [l1 EXCEPT !.StaticResCacheObj = DestroyObj(@),
                              !.Base.m_pStaticResCache = "nullptr"]
              ELSE l1
        l3 == IF l2.m_pRawMemory # "nullptr"
              THEN [l2 EXCEPT !.Arena = "Freed", !.ArenaFrees = @ + 1, !.m_pRawMemory = "nullptr"]
              ELSE l2
    IN  [l3 EXCEPT !.m_StaticResStageIndex = NoStageIndex, !.m_IsDestructed = TRUE]

\* PipelineResourceSignatureD3D12Impl::Destruct
Destruct(l) ==
    LET l0 == BaseDestruct([l EXCEPT !.Events = Append(@, "Destruct")])
        M == ImplMembers(l0)
        l1 == IF M.m_StaticVarsMgrs # "nullptr"
              THEN SetImplMembers([l0 EXCEPT !.StaticVarsMgrObjs = DestroyManagers(@, l0.m_StaticVarIndex),
                                             !.m_StaticVarIndex = NoStageIndex],
                                  [M EXCEPT !.m_StaticVarsMgrs = "nullptr"])
              ELSE l0
        M1 == ImplMembers(l1)
        l2 == IF M1.m_pStaticResCache # "nullptr"
              THEN SetImplMembers([l1 EXCEPT !.StaticResCacheObj = DestroyObj(@)],
                                  [M1 EXCEPT !.m_pStaticResCache = "nullptr"])
              ELSE l1
        l3 == [l2 EXCEPT !.ImmutableSamplerObjs = [k \in DOMAIN @ |-> DestroyObj(@[k])],
                         !.m_ImmutableSamplers = "nullptr"]
        l4 == [l3 EXCEPT !.Arena = "Freed", !.ArenaFrees = @ + 1, !.m_pResourceAttribs = "nullptr"]
    IN  IF l0.m_pResourceAttribs = "nullptr" THEN l0 ELSE l4

\* ~PipelineResourceSignatureBase
BaseDestructor(l) ==
    [l EXCEPT !.Events = IF l.m_IsDestructed
                         THEN Append(@, "~Base")
                         ELSE @ \o <<"~Base", "VERIFY failed: not destructed">>]

\* A catch handler that rethrows without calling Destruct.
Catch_NoDestruct(l) ==
    [BaseDestructor([l EXCEPT !.Events = @ \o <<"catch", "throw">>]) EXCEPT !.pc = "Failed"]

\* The catch handler of the constructor body; the rethrown exception then unwinds
\* the base class, whose constructor had completed.
Catch(l) ==
    [BaseDestructor([Destruct([l EXCEPT !.Events = Append(@, "catch")])
                        EXCEPT !.Events = Append(@, "throw")])
        EXCEPT !.pc = "Failed"]

\* A description that ValidatePipelineResourceSignatureDesc rejects: two resources of
\* one name in one stage.
DescDuplicateName ==
    SignatureDesc(<<Res(<<"g_Tex">>, {"PIXEL"}, 1, "TEXTURE_SRV", STATIC, {}),
                    Res(<<"g_Tex">>, {"PIXEL"}, 1, "TEXTURE_SRV", MUTABLE, {})>>,
                  << >>, TRUE)

\* A description that is rejected for an array of size 0.
DescEmptyArray ==
    SignatureDesc(<<Res(<<"g_CB">>, {"VERTEX"}, 0, "CONSTANT_BUFFER", STATIC, {})>>, << >>, TRUE)

LifeDescs ==
    {DescCombinedMutable, DescConstantBuffers, DescStaticImmutable, DescMutableImmutable, DescSeparate,
     DescCombinedStatic, DescDuplicateName, DescEmptyArray}

\* Entry of the constructor with argument Desc.
LifeInit ==
    /\ m_Desc = NoDesc
    /\ m_pResourceAttribs = << >>
    /\ m_ImmutableSamplers = << >>
    /\ m_RootParams = EmptyRootParams
    /\ m_TotalSlots = [SrvCbvUav |-> LayoutStart(NoDesc).TotalSrvCbvUavSlots,
                       Sampler |-> LayoutStart(NoDesc).TotalSamplerSlots]
    /\ m_Hash = 0
    /\ Other = NoSignature
    /\ ResourceStates = [r \in DeviceResources |-> RESOURCE_STATE_UNKNOWN]
    /\ CmdCtx = << >>
    /\ HeapSpace = [SrvCbvUav |-> NullAllocation, Sampler |-> NullAllocation]
    /\ \E Desc \in LifeDescs, Shadowed \in BOOLEAN : Life = LifeStart(Desc, Shadowed)
    /\ SRBCacheB = NoCache
    /\ Threads = NoThreads
    /\ DescriptorWrites = << >>
    /\ ShaderVar = NoShaderVar
    /\ Layout = [Desc |-> NoDesc, pc |-> "RootParams", i |-> 0, L |-> LayoutStart(NoDesc)]
    /\ StaticResCache = NoCache
    /\ SRBCache = NoCache
    /\ bStaticResourcesInitialized = FALSE
    /\ HandlerRuns = 0
    /\ ub = FALSE
    /\ last = NoOp
    /\ log = {}

\* What the lifetime steps leave alone.
lifeFrame == <<m_Desc, m_pResourceAttribs, m_ImmutableSamplers, m_RootParams, m_TotalSlots, m_Hash, Other,
               ResourceStates, CmdCtx, HeapSpace, SRBCacheB, Threads, DescriptorWrites, ShaderVar,
               Layout, StaticResCache, SRBCache, bStaticResourcesInitialized, HandlerRuns, ub, log>>

\* A step of the constructor: the object after it, or the catch handler.
LifeStep(Op, Throws, Reached, Done) ==
    /\ Life' = IF Throws THEN Catch(Reached) ELSE Done
    /\ last' = [op |-> Op, Throws |-> Throws]
    /\ UNCHANGED lifeFrame

\* The constructor of PipelineResourceSignatureBase.  When the validation throws, the
\* base class is not constructed: neither its destructor nor the D3D12 body runs.
LifeBaseConstructor ==
    /\ Life.pc = "BaseConstructor"
    /\ LET l0 == [Life EXCEPT !.DescPointers = "nullptr"]
       IN  Life' = IF ValidatePipelineResourceSignatureDesc(Life.Desc)
                   THEN [l0 EXCEPT !.m_StaticResStageIndex = StaticStageIndex(Life.Desc),
                                   !.pc = "Reserve"]
                   ELSE [l0 EXCEPT !.Events = Append(@, "throw"), !.pc = "Rejected"]
    /\ last' = [op |-> "BaseConstructor", Throws |-> ~ValidatePipelineResourceSignatureDesc(Life.Desc)]
    /\ UNCHANGED lifeFrame

\* From the entry of the body to MemPool.ReleaseOwnership(): the manager indices, the
\* arena (MemPool.Reserve() throws when the allocation fails), the attribute array and
\* the immutable-sampler attributes.
LifeReserve(Throws) ==
    /\ Life.pc = "Reserve"
    /\ LET l0 == [Life EXCEPT !.m_StaticVarIndex = StaticStageIndex(Life.Desc)]
       IN  LifeStep("Reserve", Throws, l0,
                    [l0 EXCEPT !.Arena = "Allocated",
                               !.m_pResourceAttribs = "Arena",
                               !.m_ImmutableSamplers = "Arena",
                               !.ImmutableSamplerObjs = [k \in DOMAIN @ |-> ConstructObj(@[k])],
                               !.pc = "CopyDescription"])

\* CopyDescription(MemPool, Desc), which sets the description pointers last.
LifeCopyDescription(Throws) ==
    /\ Life.pc = "CopyDescription"
    /\ LifeStep("CopyDescription", Throws, Life,
                [Life EXCEPT !.DescPointers = "Arena",
                             !.pc = IF GetNumStaticResStages(Life.Desc) > 0
                                    THEN "StaticResCache" ELSE "CreateLayout"])

\* StaticVarStageCount > 0: the static cache is constructed, the memory of the managers
\* is allocated without constructing them, and the cache is initialized.
LifeStaticResCache(Throws) ==
    /\ Life.pc = "StaticResCache"
    /\ LET l0 == SetImplMembers([Life EXCEPT !.StaticResCacheObj = ConstructObj(@)],
                                [m_StaticVarsMgrs |-> "Arena", m_pStaticResCache |-> "Arena"])
       IN  LifeStep("StaticResCache", Throws, l0, [l0 EXCEPT !.pc = "CreateLayout"])

\* CreateLayout()
LifeCreateLayout(Throws) ==
    /\ Life.pc = "CreateLayout"
    /\ LifeStep("CreateLayout", Throws, Life,
                [Life EXCEPT !.pc = IF GetNumStaticResStages(Life.Desc) > 0
                                    THEN "StaticVarsMgrs" ELSE "CalculateHash"])

\* One iteration of the manager loop: placement new at m_StaticVarsMgrs + Idx, then
\* Initialize of that manager.
LifeStaticVarsMgr(Throws) ==
    /\ Life.pc = "StaticVarsMgrs"
    /\ LET Idx == Life.i
           l0 == [Life EXCEPT !.StaticVarsMgrObjs[Idx + 1] = ConstructObj(@), !.i = Idx + 1]
       IN  LifeStep("StaticVarsMgr", Throws, l0,
                    [l0 EXCEPT !.pc = IF Idx + 1 < GetNumStaticResStages(Life.Desc)
                                      THEN "StaticVarsMgrs" ELSE "CalculateHash"])

\* m_Hash = CalculateHash(): the end of the constructor.
LifeCalculateHash ==
    /\ Life.pc = "CalculateHash"
    /\ LifeStep("CalculateHash", FALSE, Life, [Life EXCEPT !.pc = "Constructed"])

\* ~PipelineResourceSignatureD3D12Impl, followed by the destructor of the base class.
LifeDestructor ==
    /\ Life.pc = "Constructed"
    /\ Life' = [BaseDestructor(Destruct(Life)) EXCEPT !.pc = "Destroyed"]
    /\ last' = [op |-> "Destructor", Throws |-> FALSE]
    /\ UNCHANGED lifeFrame

LifeNext ==
    \/ LifeBaseConstructor
    \/ \E Throws \in BOOLEAN : LifeReserve(Throws)
    \/ \E Throws \in BOOLEAN : LifeCopyDescription(Throws)
    \/ \E Throws \in BOOLEAN : LifeStaticResCache(Throws)
    \/ \E Throws \in BOOLEAN : LifeCreateLayout(Throws)
    \/ \E Throws \in BOOLEAN : LifeStaticVarsMgr(Throws)
    \/ LifeCalculateHash
    \/ LifeDestructor

LifeSpec == LifeInit /\ [][LifeNext]_vars

\* Positions of an event in the record of the object's lifetime.
EventPositions(e) == {k \in 1 .. Len(Life.Events) : Life.Events[k] = e}

\* The object's lifetime is over: it was destroyed after a successful construction, or
\* an exception left the body of the D3D12 constructor.
LifetimeOver == Life.pc \in {"Destroyed", "Failed"}

\* C27: on every lifecycle path of a signature (construction followed by destruction,
\* or a failure inside the body of the D3D12 constructor) Destruct runs exactly once,
\* before the destructor of the base class, and it never runs twice on one object.
C27_DestructRunsExactlyOnce ==
    Life.pc # "None" =>
        /\ Cardinality(EventPositions("Destruct")) <= 1
        /\ Cardinality(EventPositions("Base::Destruct")) <= 1
        /\ \A k \in 1 .. Len(Life.Events) : Life.Events[k] \notin {"VERIFY failed: already destructed",
                                                                  "VERIFY failed: not destructed"}
        /\ \A b \in EventPositions("~Base") :
               \E d \in EventPositions("Destruct"), e \in EventPositions("Base::Destruct") : d < b /\ e < b
        /\ LifetimeOver =>
               /\ Cardinality(EventPositions("Destruct")) = 1
               /\ Cardinality(EventPositions("Base::Destruct")) = 1
               /\ Cardinality(EventPositions("~Base")) = 1

\* An exception thrown while the static variable managers are being constructed has
\* left the constructor, and Destruct has run.
C27_Witness_FailedInManagerLoop ==
    /\ Life.pc = "Failed"
    /\ last.op = "StaticVarsMgr"
    /\ EventPositions("Destruct") # {}
    /\ Life.m_IsDestructed

\* Sub-objects whose destructor ran at least once.
DestroyedObjs(Objs) == {k \in DOMAIN Objs : Objs[k].Destroyed > 0}
ConstructedObjs(Objs) == {k \in DOMAIN Objs : Objs[k].Constructed}

\* Only constructed sub-objects were destroyed, none of them twice.
OnlyConstructedDestroyed(Objs) ==
    /\ DestroyedObjs(Objs) \subseteq ConstructedObjs(Objs)
    /\ \A k \in DOMAIN Objs : Objs[k].Destroyed <= 1

\* The arena is not held by the object and was freed at most once.
ArenaReleased ==
    /\ Life.Arena \in {"None", "Freed"}
    /\ Life.ArenaFrees = (IF Life.Arena = "Freed" THEN 1 ELSE 0)
    /\ Life.m_pResourceAttribs = "nullptr"
    /\ Life.m_pRawMemory = "nullptr"

\* C28: construction is all-or-nothing.  When the validation of the description fails,
\* no arena memory was allocated and no description pointer was set; when a later
\* step throws, then on leaving the constructor the arena memory is released and only
\* the static variable managers, the static cache and the immutable-sampler attributes
\* that were constructed have been destroyed.
C28_ConstructionIsAllOrNothing ==
    /\ Life.pc = "Rejected" =>
           /\ Life.Arena = "None" /\ Life.ArenaFrees = 0
           /\ Life.DescPointers = "nullptr"
           /\ EventPositions("Destruct") = {}
    /\ Life.pc = "Failed" =>
           /\ ArenaReleased
           /\ Life.DescPointers = "nullptr"
           /\ OnlyConstructedDestroyed(Life.StaticVarsMgrObjs)
           /\ OnlyConstructedDestroyed(<<Life.StaticResCacheObj>>)
           /\ OnlyConstructedDestroyed(Life.ImmutableSamplerObjs)

(***************************************************************************)
(* Descriptors of a binding in the GPU-visible heap.  InitSRBResourceCache *)
(* gives every non-dynamic root table a persistent region of the heap;     *)
(* BindResource and InitializeStaticSRBResources copy a descriptor into it *)
(* with CopyDescriptorsSimple.  DescriptorWrites counts these copies for   *)
(* every slot of the binding's cache.                                      *)
(***************************************************************************)
MaxDescriptorWrites == 2

HeapDescs == {DescCombinedMutable, DescSeparate, DescCombinedStatic, DescRayTracing}

\* The signature is constructed and a binding with successful heap allocations exists;
\* nothing was bound and no descriptor was written yet.
HeapInit ==
    \E Desc \in HeapDescs :
        \E Copy \in CopyDescription(Desc) :
            LET L == CreateLayout(Copy)
            IN  /\ m_Desc = Copy
                /\ m_pResourceAttribs = L.ResourceAttribs
                /\ m_ImmutableSamplers = L.ImmutableSamplers
                /\ m_RootParams = L.RootParams
                /\ m_TotalSlots = [SrvCbvUav |-> L.TotalSrvCbvUavSlots,
                                   Sampler |-> L.TotalSamplerSlots]
                /\ m_Hash = CalculateHash(Copy, L.ResourceAttribs)
                /\ Other = NoSignature
                /\ ResourceStates = [r \in DeviceResources |-> RESOURCE_STATE_UNKNOWN]
                /\ CmdCtx = << >>
                /\ HeapSpace = [SrvCbvUav |-> NullAllocation, Sampler |-> NullAllocation]
                /\ Life = NoLife
                /\ SRBCacheB = NoCache
                /\ Threads = NoThreads
                /\ DescriptorWrites = [sl \in Slots(InitSRBResourceCache(L.RootParams)) |-> 0]
                /\ ShaderVar = NoShaderVar
                /\ Layout = [Desc |-> Desc, pc |-> "Constructed", i |-> Len(Copy.Resources), L |-> L]
                /\ StaticResCache = IF HasStaticResources(Desc)
                                    THEN InitializeCache(StaticResCacheTblSizes(Desc))
                                    ELSE NoCache
                /\ SRBCache = InitSRBResourceCache(L.RootParams)
                /\ bStaticResourcesInitialized = FALSE
                /\ HandlerRuns = 0
                /\ ub = FALSE
                /\ last = NoOp
                /\ log = {}

\* What the operations on a binding leave alone.
heapFrame == <<m_Desc, m_pResourceAttribs, m_ImmutableSamplers, m_RootParams, m_TotalSlots, m_Hash, Other,
               ResourceStates, CmdCtx, HeapSpace, Life, SRBCacheB, Threads, ShaderVar, Layout,
               bStaticResourcesInitialized, HandlerRuns>>

\* The slots whose descriptor an operation copied into the GPU-visible heap.
DescriptorsCopied(access) == {<<a[2], a[3]>> : a \in {b \in access : b[1] = "descriptor"}}

CountDescriptorWrites(Writes, access) ==
    [sl \in DOMAIN Writes |-> IF sl \in DescriptorsCopied(access) THEN Writes[sl] + 1 ELSE Writes[sl]]

\* A variable of the binding calls BindResource.
HeapBindResource(ResIndex, ArrayIndex, pObj) ==
    LET ResDesc == m_Desc.Resources[ResIndex + 1]
    IN  /\ ~ub
        /\ SRBCache.NumDynamicCBsBound \in 0 .. MaxDynamicCBsBound - 1
        /\ \A sl \in DOMAIN DescriptorWrites : DescriptorWrites[sl] < MaxDescriptorWrites
        /\ ResDesc.VarType # SHADER_RESOURCE_VARIABLE_TYPE_STATIC
        /\ ~IsImmutableSamplerAssigned(m_pResourceAttribs[ResIndex + 1])
        /\ ArrayIndex < ResDesc.ArraySize
        /\ \E out \in BindResourceOutcomes(SRBCache, CacheContentType_SRB, ResIndex, ArrayIndex, pObj) :
               /\ SRBCache' = out.cache
               /\ DescriptorWrites' = CountDescriptorWrites(DescriptorWrites, out.access)
               /\ log' = out.log
               /\ ub' = (ub \/ out.ub)
               /\ last' = [NoOp EXCEPT !.op = "BindResource", !.cache = CacheContentType_SRB,
                                       !.ResIndex = ResIndex, !.ArrayIndex = ArrayIndex,
                                       !.pObj = pObj, !.access = out.access]
        /\ UNCHANGED <<heapFrame, StaticResCache>>

\* A static variable of the signature calls BindResource.
HeapBindStaticResource(ResIndex, ArrayIndex, pObj) ==
    LET ResDesc == m_Desc.Resources[ResIndex + 1]
    IN  /\ ~ub
        /\ StaticResCache.Exists
        /\ StaticResCache.NumDynamicCBsBound \in 0 .. MaxDynamicCBsBound - 1
        /\ ResDesc.VarType = SHADER_RESOURCE_VARIABLE_TYPE_STATIC
        /\ ~IsImmutableSamplerAssigned(m_pResourceAttribs[ResIndex + 1])
        /\ ArrayIndex < ResDesc.ArraySize
        /\ \E out \in BindResourceOutcomes(StaticResCache, CacheContentType_Signature, ResIndex, ArrayIndex, pObj) :
               /\ StaticResCache' = out.cache
               /\ log' = out.log
               /\ ub' = (ub \/ out.ub)
               /\ last' = [NoOp EXCEPT !.op = "BindResource", !.cache = CacheContentType_Signature,
                                       !.ResIndex = ResIndex, !.ArrayIndex = ArrayIndex,
                                       !.pObj = pObj, !.access = out.access]
        /\ UNCHANGED <<heapFrame, SRBCache, DescriptorWrites>>

\* InitializeStaticSRBResources on the binding's cache.
HeapInitializeStaticSRBResources ==
    /\ ~ub
    /\ SRBCache.NumDynamicCBsBound \in 0 .. MaxDynamicCBsBound - 1
    /\ \A sl \in DOMAIN DescriptorWrites : DescriptorWrites[sl] < MaxDescriptorWrites
    /\ \E out \in InitializeStaticSRBResourcesOutcomes(
                      [cache |-> SRBCache, log |-> {}, ub |-> FALSE, access |-> {}],
                      StaticResCache, m_Desc, m_pResourceAttribs) :
           /\ SRBCache' = out.cache
           /\ DescriptorWrites' = CountDescriptorWrites(DescriptorWrites, out.access)
           /\ log' = out.log
           /\ ub' = (ub \/ out.ub)
           /\ last' = [NoOp EXCEPT !.op = "InitializeStaticSRBResources",
                                   !.cache = CacheContentType_SRB, !.access = out.access]
    /\ UNCHANGED <<heapFrame, StaticResCache>>

HeapNext ==
    \/ \E ResIndex \in ResIndices, ArrayIndex \in 0 .. MaxArraySize - 1, pObj \in Objects \cup {NullObj} :
           /\ pObj \in InputObjects(m_Desc.Resources[ResIndex + 1].ResourceType)
           /\ HeapBindResource(ResIndex, ArrayIndex, pObj)
    \/ \E ResIndex \in ResIndices, ArrayIndex \in 0 .. MaxArraySize - 1, pObj \in Objects \cup {NullObj} :
           /\ pObj \in InputObjects(m_Desc.Resources[ResIndex + 1].ResourceType)
           /\ HeapBindStaticResource(ResIndex, ArrayIndex, pObj)
    \/ HeapInitializeStaticSRBResources

HeapSpec == HeapInit /\ [][HeapNext]_vars

\* Cache slots of the resources of the Static and the Mutable class.
PersistentSlots ==
    {BindAddress(CacheContentType_SRB, r, a) :
        r \in {q \in ResIndices :
                  /\ m_Desc.Resources[q + 1].VarType # SHADER_RESOURCE_VARIABLE_TYPE_DYNAMIC
                  /\ ~IsImmutableSamplerAssigned(m_pResourceAttribs[q + 1])},
        a \in 0 .. MaxArraySize - 1} \cap DOMAIN DescriptorWrites

\* C30: over any sequence of BindResource calls (binds of null included) and
\* InitializeStaticSRBResources calls on a binding's cache, the descriptor of a slot of
\* the Static or the Mutable class in the persistent GPU-visible heap region is
\* written at most once.
C30_PersistentDescriptorWrittenOnce ==
    \A sl \in PersistentSlots : DescriptorWrites[sl] <= 1

(***************************************************************************)
(* Two bindings of one signature, each used by one thread.  BindResource   *)
(* and InitializeStaticSRBResources are const member functions that take   *)
(* the cache as argument; a thread calls them with the cache of its own    *)
(* binding.  A reference the code forms outside the tables of that cache   *)
(* denotes memory it does not own: besides the outcomes listed at the top, *)
(* it may denote any slot of the other binding's cache, which comes from   *)
(* the same allocator.  The operations are therefore followed on the       *)
(* memory of both caches, the caller's tables first.                       *)
(***************************************************************************)
MaxThreadOps == 2

ThreadIds == {"A", "B"}

ShareDescs == {DescCombinedMutable, DescMutableImmutable, DescStaticImmutable, DescConstantBuffers}

\* The memory of the target cache followed by the memory of the other cache.
JoinCaches(Target, OtherCache) ==
    [Target EXCEPT !.Tables = @ \o OtherCache.Tables,
                   !.TableStartOffset = @ \o OtherCache.TableStartOffset]

\* The target cache and the other cache in the joined memory Mem.
TargetPart(Mem, Target) ==
    [Mem EXCEPT !.Tables = SubSeq(@, 1, Len(Target.Tables)),
                !.TableStartOffset = SubSeq(@, 1, Len(Target.Tables))]

OtherPart(Mem, Target, OtherCache) ==
    [OtherCache EXCEPT !.Tables = SubSeq(Mem.Tables, Len(Target.Tables) + 1, Len(Mem.Tables))]

CacheOfThread(t) == IF t = "A" THEN SRBCache ELSE SRBCacheB

\* The signature is constructed and both bindings exist; nothing is bound.
ShareInit ==
    \E Desc \in ShareDescs :
        \E Copy \in CopyDescription(Desc) :
            LET L == CreateLayout(Copy)
            IN  /\ m_Desc = Copy
                /\ m_pResourceAttribs = L.ResourceAttribs
                /\ m_ImmutableSamplers = L.ImmutableSamplers
                /\ m_RootParams = L.RootParams
                /\ m_TotalSlots = [SrvCbvUav |-> L.TotalSrvCbvUavSlots,
                                   Sampler |-> L.TotalSamplerSlots]
                /\ m_Hash = CalculateHash(Copy, L.ResourceAttribs)
                /\ Other = NoSignature
                /\ ResourceStates = [r \in DeviceResources |-> RESOURCE_STATE_UNKNOWN]
                /\ CmdCtx = << >>
                /\ HeapSpace = [SrvCbvUav |-> NullAllocation, Sampler |-> NullAllocation]
                /\ Life = NoLife
                /\ SRBCacheB = InitSRBResourceCache(L.RootParams)
                /\ Threads = NoThreads
                /\ DescriptorWrites = << >>
                /\ ShaderVar = NoShaderVar
                /\ Layout = [Desc |-> Desc, pc |-> "Constructed", i |-> Len(Copy.Resources), L |-> L]
                /\ StaticResCache = IF HasStaticResources(Desc)
                                    THEN InitializeCache(StaticResCacheTblSizes(Desc))
                                    ELSE NoCache
                /\ SRBCache = InitSRBResourceCache(L.RootParams)
                /\ bStaticResourcesInitialized = FALSE
                /\ HandlerRuns = 0
                /\ ub = FALSE
                /\ last = NoOp
                /\ log = {}

\* What no operation on a binding touches in this model.
shareFrame == <<m_Desc, m_pResourceAttribs, m_ImmutableSamplers, m_RootParams, m_TotalSlots, m_Hash, Other,
                ResourceStates, CmdCtx, HeapSpace, Life, DescriptorWrites, ShaderVar, Layout,
                bStaticResourcesInitialized, HandlerRuns>>

\* The static variables are bound before the bindings are handed to the threads.
ShareBindStaticResource(ResIndex, ArrayIndex, pObj) ==
    LET ResDesc == m_Desc.Resources[ResIndex + 1]
    IN  /\ ~ub
        /\ Threads = NoThreads
        /\ StaticResCache.Exists
        /\ StaticResCache.NumDynamicCBsBound \in 0 .. MaxDynamicCBsBound - 1
        /\ ResDesc.VarType = SHADER_RESOURCE_VARIABLE_TYPE_STATIC
        /\ ~IsImmutableSamplerAssigned(m_pResourceAttribs[ResIndex + 1])
        /\ ArrayIndex < ResDesc.ArraySize
        /\ pObj # NullObj
        /\ \E out \in BindResourceOutcomes(StaticResCache, CacheContentType_Signature, ResIndex, ArrayIndex, pObj) :
               /\ StaticResCache' = out.cache
               /\ log' = out.log
               /\ ub' = (ub \/ out.ub)
               /\ last' = [op |-> "BindStaticResource", thread |-> "None"]
        /\ UNCHANGED <<shareFrame, SRBCache, SRBCacheB, Threads>>

\* The caches after an operation of thread t whose result on the joined memory is Mem.
ShareWrite(t, Mem) ==
    IF t = "A"
    THEN /\ SRBCache' = TargetPart(Mem, SRBCache)
         /\ SRBCacheB' = OtherPart(Mem, SRBCache, SRBCacheB)
    ELSE /\ SRBCacheB' = TargetPart(Mem, SRBCacheB)
         /\ SRBCache' = OtherPart(Mem, SRBCacheB, SRBCache)

\* Thread t calls BindResource through a variable of its binding.
ShareBindResource(t, ResIndex, ArrayIndex, pObj) ==
    LET ResDesc == m_Desc.Resources[ResIndex + 1]
        Target == CacheOfThread(t)
        Mem == JoinCaches(Target, CacheOfThread(CHOOSE o \in ThreadIds : o # t))
        Call == [op |-> "BindResource", ResIndex |-> ResIndex, ArrayIndex |-> ArrayIndex, pObj |-> pObj]
    IN  /\ ~ub
        /\ Len(Threads[t]) < MaxThreadOps
        /\ Target.NumDynamicCBsBound \in 0 .. MaxDynamicCBsBound - 1
        /\ ResDesc.VarType # SHADER_RESOURCE_VARIABLE_TYPE_STATIC
        /\ ~IsImmutableSamplerAssigned(m_pResourceAttribs[ResIndex + 1])
        /\ ArrayIndex < ResDesc.ArraySize
        /\ \E out \in BindResourceOutcomes(Mem, CacheContentType_SRB, ResIndex, ArrayIndex, pObj) :
               /\ ShareWrite(t, out.cache)
               /\ log' = out.log
               /\ ub' = (ub \/ out.ub)
        /\ Threads' = [Threads EXCEPT ![t] = Append(@, Call)]
        /\ last' = [op |-> "BindResource", thread |-> t]
        /\ UNCHANGED <<shareFrame, StaticResCache>>

\* Thread t calls InitializeStaticSRBResources on the cache of its binding.
ShareInitializeStaticSRBResources(t) ==
    LET Target == CacheOfThread(t)
        Mem == JoinCaches(Target, CacheOfThread(CHOOSE o \in ThreadIds : o # t))
        Call == [op |-> "InitializeStaticSRBResources", ResIndex |-> -1, ArrayIndex |-> -1, pObj |-> NullObj]
    IN  /\ ~ub
        /\ Len(Threads[t]) < MaxThreadOps
        /\ Target.NumDynamicCBsBound \in 0 .. MaxDynamicCBsBound - 1
        /\ \E out \in InitializeStaticSRBResourcesOutcomes(
                          [cache |-> Mem, log |-> {}, ub |-> FALSE, access |-> {}],
                          StaticResCache, m_Desc, m_pResourceAttribs) :
               /\ ShareWrite(t, out.cache)
               /\ log' = out.log
               /\ ub' = (ub \/ out.ub)
        /\ Threads' = [Threads EXCEPT ![t] = Append(@, Call)]
        /\ last' = [op |-> "InitializeStaticSRBResources", thread |-> t]
        /\ UNCHANGED <<shareFrame, StaticResCache>>

ShareNext ==
    \/ \E ResIndex \in ResIndices, ArrayIndex \in 0 .. MaxArraySize - 1, pObj \in Objects :
           /\ pObj = CtxObject(m_Desc.Resources[ResIndex + 1].ResourceType)
           /\ ShareBindStaticResource(ResIndex, ArrayIndex, pObj)
    \/ \E t \in ThreadIds, ResIndex \in ResIndices, ArrayIndex \in 0 .. MaxArraySize - 1,
          pObj \in Objects \cup {NullObj} :
           /\ pObj \in {NullObj, CtxObject(m_Desc.Resources[ResIndex + 1].ResourceType)}
           /\ ShareBindResource(t, ResIndex, ArrayIndex, pObj)
    \/ \E t \in ThreadIds : ShareInitializeStaticSRBResources(t)

ShareSpec == ShareInit /\ [][ShareNext]_vars

OtherThread(t) == CHOOSE o \in ThreadIds : o # t

\* The results of one recorded call on the joined memory Mem.
CallOutcomes(Mem, Call) ==
    IF Call.op = "BindResource"
    THEN BindResourceOutcomes(Mem, CacheContentType_SRB, Call.ResIndex, Call.ArrayIndex, Call.pObj)
    ELSE InitializeStaticSRBResourcesOutcomes([cache |-> Mem, log |-> {}, ub |-> FALSE, access |-> {}],
                                              StaticResCache, m_Desc, m_pResourceAttribs)

\* The pairs of caches that the call of thread t can leave, started from the pair P.
RunCall(P, t, Call) ==
    LET Mem == JoinCaches(P[t], P[OtherThread(t)])
    IN  {[x \in ThreadIds |-> IF x = t THEN TargetPart(out.cache, P[t])
                              ELSE OtherPart(out.cache, P[t], P[x])] :
            out \in CallOutcomes(Mem, Call)}

RECURSIVE RunCalls(_, _, _, _)
\* The calls of thread t from position k on, started from every pair in Ps.
RunCalls(Ps, t, Calls, k) ==
    IF k > Len(Calls) THEN Ps
    ELSE RunCalls(UNION {RunCall(P, t, Calls[k]) : P \in Ps}, t, Calls, k + 1)

\* Both caches as InitSRBResourceCache leaves them.
FreshCaches == [x \in ThreadIds |-> InitSRBResourceCache(m_RootParams)]

\* What the completed calls leave when one thread runs all of its calls and then the
\* other thread runs all of its calls.
SequentialResults ==
    UNION {RunCalls(RunCalls({FreshCaches}, t, Threads[t], 1), OtherThread(t), Threads[OtherThread(t)], 1) :
              t \in ThreadIds}

\* A step of thread t leaves the signature, the static cache and the cache of the other
\* thread alone.
WritesOnlyTargetCache(t) ==
    /\ UNCHANGED <<m_Desc, m_pResourceAttribs, m_ImmutableSamplers, m_RootParams, m_TotalSlots, m_Hash,
                   StaticResCache>>
    /\ t = "A" => UNCHANGED SRBCacheB
    /\ t = "B" => UNCHANGED SRBCache

\* C29: for two bindings A and B of one signature, every interleaving of BindResource
\* and InitializeStaticSRBResources calls by one thread on A and another thread on B
\* leaves both caches as running the threads one after the other does, and a call
\* writes only the cache it was given: not the signature, not the static cache and
\* not the cache of the other binding.
C29_ThreadsOnOwnBindingsIndependent ==
    [][last'.thread \in ThreadIds =>
          /\ WritesOnlyTargetCache(last'.thread)
          /\ [A |-> SRBCache', B |-> SRBCacheB'] \in SequentialResults']_vars

(***************************************************************************)
(* IsBound                                                                 *)
(***************************************************************************)
\* PipelineResourceSignatureD3D12Impl::IsBound.  OffsetFromTableStart already holds
\* the array index, and the slot inspected is OffsetFromTableStart + ArrayIndex.
IsBound(ResourceCache, CacheType, ResIndex, ArrayIndex) ==
    LET Attribs == m_pResourceAttribs[ResIndex + 1]
        RootInd == RootIndex(Attribs, CacheType)
        Offset == OffsetFromTableStart(Attribs, CacheType) + ArrayIndex
    IN  /\ RootInd >= 0
        /\ RootInd < Len(ResourceCache.Tables)
        /\ Offset + ArrayIndex >= 0
        /\ Offset + ArrayIndex < Len(ResourceCache.Tables[RootInd + 1])
        /\ ResourceCache.Tables[RootInd + 1][Offset + ArrayIndex + 1].pObject # NullObj

\* The variables that exist: <<cache type, resource index, array index>>.  Static
\* resources have variables on the static cache, the others on the SRB cache; a sampler
\* with an immutable sampler has none.
VariableElements ==
    {v \in {CacheContentType_Signature, CacheContentType_SRB} \X ResIndices \X (0 .. MaxArraySize - 1) :
        /\ CacheOf(v[1]).Exists
        /\ (v[1] = CacheContentType_Signature) =
               (m_Desc.Resources[v[2] + 1].VarType = SHADER_RESOURCE_VARIABLE_TYPE_STATIC)
        /\ ~IsImmutableSamplerAssigned(m_pResourceAttribs[v[2] + 1])
        /\ v[3] < m_Desc.Resources[v[2] + 1].ArraySize}

\* The slot BindResource writes for the variable element v holds an object.
HoldsObject(v) ==
    LET addr == BindAddress(v[1], v[2], v[3])
    IN  /\ IsSlot(CacheOf(v[1]), addr[1], addr[2])
        /\ SlotIn(CacheOf(v[1]), addr).pObject # NullObj

\* C31: after any sequence of binds, IsBound(arrayIndex, resIndex, cache) is true
\* exactly when the slot that BindResource(obj, arrayIndex, resIndex, cache) writes
\* holds a non-null object, for every resource and every arrayIndex < ArraySize.
C31_IsBoundInspectsBoundSlot ==
    ~ub => \A v \in VariableElements : IsBound(CacheOf(v[1]), v[1], v[2], v[3]) = HoldsObject(v)

(***************************************************************************)
(* Shader variables.  ShaderVariableBase forwards Set, SetArray and        *)
(* BindResources to BindResource and IsBound of its implementation, which  *)
(* for a variable of this backend are the signature's BindResource and     *)
(* IsBound on the cache of the variable's manager.                         *)
(***************************************************************************)
MaxVarOps == 2

\* A Uint32 as <<high half, low half>> of 16 bits each, so that sums wrap at 2^32.
Half == 2^16

U32(n) == <<n \div Half, n % Half>>

U32Max == <<Half - 1, Half - 1>>

U32Value(a) == a[1] * Half + a[2]

U32Add(a, b) == <<(a[1] + b[1] + (a[2] + b[2]) \div Half) % Half, (a[2] + b[2]) % Half>>

U32Sub(a, b) ==
    <<(Half + a[1] - b[1] - (IF a[2] < b[2] THEN 1 ELSE 0)) % Half, (Half + a[2] - b[2]) % Half>>

U32Less(a, b) == a[1] < b[1] \/ (a[1] = b[1] /\ a[2] < b[2])

\* VerifyAndCorrectSetArrayArguments: the corrected FirstElement and NumElements and
\* the errors logged.
VerifyAndCorrectSetArrayArguments(ArraySize, FirstElement, NumElements) ==
    LET a1 == IF ~U32Less(FirstElement, ArraySize)
              THEN [FirstElement |-> U32Sub(ArraySize, U32(1)), NumElements |-> U32(0),
                    log |-> {"FirstElementOutOfRange"}]
              ELSE [FirstElement |-> FirstElement, NumElements |-> NumElements, log |-> {}]
    IN  IF U32Less(ArraySize, U32Add(a1.FirstElement, a1.NumElements))
        THEN [a1 EXCEPT !.NumElements = U32Sub(ArraySize, a1.FirstElement),
                        !.log = @ \cup {"RangeOutOfBounds"}]
        ELSE a1

RECURSIVE SetArrayLoop(_, _, _, _, _, _, _)
\* The loop of ShaderVariableBase::SetArray from element elem on.  st holds the cache,
\* the log and the array indices BindResource was called with (Calls).  A call with an
\* array index outside the array is the last one followed.
SetArrayLoop(st, CacheType, ResIndex, ppObjects, FirstElement, NumElements, elem) ==
    LET ArraySize == U32(m_Desc.Resources[ResIndex + 1].ArraySize)
        ArrayIndex == U32Add(FirstElement, elem)
    IN  IF st.ub \/ ~U32Less(elem, NumElements) THEN {st}
        ELSE IF ~U32Less(ArrayIndex, ArraySize)
        THEN {[st EXCEPT !.ub = TRUE, !.Calls = Append(@, ArrayIndex)]}
        ELSE UNION {SetArrayLoop([cache |-> out.cache, log |-> st.log \cup out.log, ub |-> out.ub,
                                  Calls |-> Append(st.Calls, ArrayIndex)],
                                 CacheType, ResIndex, ppObjects, FirstElement, NumElements,
                                 U32Add(elem, U32(1))) :
                       out \in BindResourceOutcomes(st.cache, CacheType, ResIndex, U32Value(ArrayIndex),
                                                    ppObjects[U32Value(elem) + 1])}

\* ShaderVariableBase::SetArray
SetArray(ResourceCache, CacheType, ResIndex, ppObjects, FirstElement, NumElements) ==
    LET a == VerifyAndCorrectSetArrayArguments(U32(m_Desc.Resources[ResIndex + 1].ArraySize),
                                               FirstElement, NumElements)
    IN  SetArrayLoop([cache |-> ResourceCache, log |-> {<<m, ResIndex, -1>> : m \in a.log}, ub |-> FALSE,
                      Calls |-> << >>],
                     CacheType, ResIndex, ppObjects, a.FirstElement, a.NumElements, U32(0))

\* BIND_SHADER_RESOURCES_FLAGS as the set of its bits; 1u << VarType is the bit of
\* the variable class.
VarTypeFlag(VarType) ==
    CASE VarType = SHADER_RESOURCE_VARIABLE_TYPE_STATIC -> "BIND_SHADER_RESOURCES_UPDATE_STATIC"
      [] VarType = SHADER_RESOURCE_VARIABLE_TYPE_MUTABLE -> "BIND_SHADER_RESOURCES_UPDATE_MUTABLE"
      [] VarType = SHADER_RESOURCE_VARIABLE_TYPE_DYNAMIC -> "BIND_SHADER_RESOURCES_UPDATE_DYNAMIC"

RECURSIVE BindResourcesLoop(_, _, _, _, _, _)
\* The loop of ShaderVariableBase::BindResources from element ArrInd on.
\* Mapping[ArrInd + 1] is what GetResource returns for the element.
BindResourcesLoop(st, CacheType, ResIndex, Mapping, Flags, ArrInd) ==
    LET ResDesc == m_Desc.Resources[ResIndex + 1]
        pObj == Mapping[ArrInd + 1]
    IN  IF st.ub \/ ArrInd >= ResDesc.ArraySize THEN {st}
        ELSE IF "BIND_SHADER_RESOURCES_KEEP_EXISTING" \in Flags
                /\ IsBound(st.cache, CacheType, ResIndex, ArrInd)
        THEN BindResourcesLoop(st, CacheType, ResIndex, Mapping, Flags, ArrInd + 1)
        ELSE IF pObj # NullObj
        THEN UNION {BindResourcesLoop([cache |-> out.cache, log |-> st.log \cup out.log, ub |-> out.ub,
                                       Calls |-> Append(st.Calls, ArrInd)],
                                      CacheType, ResIndex, Mapping, Flags, ArrInd + 1) :
                       out \in BindResourceOutcomes(st.cache, CacheType, ResIndex, ArrInd, pObj)}
        ELSE BindResourcesLoop(
                 IF "BIND_SHADER_RESOURCES_VERIFY_ALL_RESOLVED" \in Flags
                    /\ ~IsBound(st.cache, CacheType, ResIndex, ArrInd)
                 THEN [st EXCEPT !.log = @ \cup {<<"ResourceNotFound", ResIndex, ArrInd>>}]
                 ELSE st,
                 CacheType, ResIndex, Mapping, Flags, ArrInd + 1)

\* ShaderVariableBase::BindResources
BindResources(ResourceCache, CacheType, ResIndex, Mapping, Flags) ==
    LET st == [cache |-> ResourceCache, log |-> {}, ub |-> FALSE, Calls |-> << >>]
    IN  IF VarTypeFlag(m_Desc.Resources[ResIndex + 1].VarType) \notin Flags THEN {st}
        ELSE BindResourcesLoop(st, CacheType, ResIndex, Mapping, Flags, 0)

VarDescs == {DescSharedSampler, DescCombinedDynamicArray, DescCombinedStatic}

\* The signature is constructed and one binding exists; no variable was used.
VarInit ==
    \E Desc \in VarDescs :
        \E Copy \in CopyDescription(Desc) :
            LET L == CreateLayout(Copy)
            IN  /\ m_Desc = Copy
                /\ m_pResourceAttribs = L.ResourceAttribs
                /\ m_ImmutableSamplers = L.ImmutableSamplers
                /\ m_RootParams = L.RootParams
                /\ m_TotalSlots = [SrvCbvUav |-> L.TotalSrvCbvUavSlots,
                                   Sampler |-> L.TotalSamplerSlots]
                /\ m_Hash = CalculateHash(Copy, L.ResourceAttribs)
                /\ Other = NoSignature
                /\ ResourceStates = [r \in DeviceResources |-> RESOURCE_STATE_UNKNOWN]
                /\ CmdCtx = << >>
                /\ HeapSpace = [SrvCbvUav |-> NullAllocation, Sampler |-> NullAllocation]
                /\ Life = NoLife
                /\ SRBCacheB = NoCache
                /\ Threads = NoThreads
                /\ DescriptorWrites = << >>
                /\ ShaderVar = [pc |-> "Ready", Ops |-> 0]
                /\ Layout = [Desc |-> Desc, pc |-> "Constructed", i |-> Len(Copy.Resources), L |-> L]
                /\ StaticResCache = IF HasStaticResources(Desc)
                                    THEN InitializeCache(StaticResCacheTblSizes(Desc))
                                    ELSE NoCache
                /\ SRBCache = InitSRBResourceCache(L.RootParams)
                /\ bStaticResourcesInitialized = FALSE
                /\ HandlerRuns = 0
                /\ ub = FALSE
                /\ last = NoOp
                /\ log = {}

varFrame == <<m_Desc, m_pResourceAttribs, m_ImmutableSamplers, m_RootParams, m_TotalSlots, m_Hash, Other,
              ResourceStates, CmdCtx, HeapSpace, Life, SRBCacheB, Threads, DescriptorWrites, Layout,
              bStaticResourcesInitialized, HandlerRuns>>

\* The variable of resource ResIndex exists in the manager of cache CacheType.
VariableExists(CacheType, ResIndex) ==
    /\ CacheOf(CacheType).Exists
    /\ (CacheType = CacheContentType_Signature) =
           (m_Desc.Resources[ResIndex + 1].VarType = SHADER_RESOURCE_VARIABLE_TYPE_STATIC)
    /\ ~IsImmutableSamplerAssigned(m_pResourceAttribs[ResIndex + 1])

\* The result st of a variable's operation becomes the state.
VarWrite(CacheType, st) ==
    /\ IF CacheType = CacheContentType_SRB
       THEN SRBCache' = st.cache /\ UNCHANGED StaticResCache
       ELSE StaticResCache' = st.cache /\ UNCHANGED SRBCache
    /\ log' = st.log
    /\ ub' = (ub \/ st.ub)

\* A caller calls SetArray(ppObjects, FirstElement, NumElements) of a variable.
VarSetArray(CacheType, ResIndex, ppObjects, FirstElement, NumElements) ==
    /\ ~ub
    /\ ShaderVar.Ops < MaxVarOps
    /\ VariableExists(CacheType, ResIndex)
    /\ \E st \in SetArray(CacheOf(CacheType), CacheType, ResIndex, ppObjects, FirstElement, NumElements) :
           /\ VarWrite(CacheType, st)
           /\ ShaderVar' = [pc |-> "SetArray", Ops |-> ShaderVar.Ops + 1, CacheType |-> CacheType,
                            ResIndex |-> ResIndex, FirstElement |-> FirstElement,
                            NumElements |-> NumElements, Calls |-> st.Calls]
    /\ last' = [NoOp EXCEPT !.op = "SetArray", !.cache = CacheType, !.ResIndex = ResIndex]
    /\ UNCHANGED varFrame

\* A caller calls BindResources(pResourceMapping, Flags) of a variable.
VarBindResources(CacheType, ResIndex, Mapping, Flags) ==
    /\ ~ub
    /\ ShaderVar.Ops < MaxVarOps
    /\ VariableExists(CacheType, ResIndex)
    /\ \E st \in BindResources(CacheOf(CacheType), CacheType, ResIndex, Mapping, Flags) :
           /\ VarWrite(CacheType, st)
           /\ ShaderVar' = [pc |-> "BindResources", Ops |-> ShaderVar.Ops + 1, CacheType |-> CacheType,
                            ResIndex |-> ResIndex, Mapping |-> Mapping, Flags |-> Flags,
                            Calls |-> st.Calls]
    /\ last' = [NoOp EXCEPT !.op = "BindResources", !.cache = CacheType, !.ResIndex = ResIndex]
    /\ UNCHANGED varFrame

\* The objects a caller has for a variable of the given type.
VarObjects(ResourceType) ==
    CASE ResourceType = "TEXTURE_SRV" -> {"TexA", "TexB"}
      [] ResourceType = "SAMPLER" -> {"SamA", "SamB"}
      [] OTHER -> {CtxObject(ResourceType)}

\* Argument values of FirstElement and NumElements.
Uint32Values == {U32(0), U32(1), U32(2), U32(3), U32Sub(U32Max, U32(1)), U32Max}

BindFlags ==
    {T \cup F : T \in {{}, {VarTypeFlag(t) : t \in VarTypes}},
                F \in SUBSET {"BIND_SHADER_RESOURCES_KEEP_EXISTING", "BIND_SHADER_RESOURCES_VERIFY_ALL_RESOLVED"}}

VarNext ==
    \/ \E CacheType \in {CacheContentType_Signature, CacheContentType_SRB}, ResIndex \in ResIndices,
          FirstElement \in Uint32Values, NumElements \in Uint32Values :
           VarSetArray(CacheType, ResIndex,
                       [k \in 1 .. MaxArraySize |-> CtxObject(m_Desc.Resources[ResIndex + 1].ResourceType)],
                       FirstElement, NumElements)
    \/ \E CacheType \in {CacheContentType_Signature, CacheContentType_SRB}, ResIndex \in ResIndices,
          Flags \in BindFlags :
           \E Mapping \in [1 .. MaxArraySize ->
                              VarObjects(m_Desc.Resources[ResIndex + 1].ResourceType) \cup {NullObj}] :
               VarBindResources(CacheType, ResIndex, Mapping, Flags)

VarSpec == VarInit /\ [][VarNext]_vars

\* The last operation was SetArray on a variable with array size ArraySize.
SetArrayCalled == ShaderVar.pc = "SetArray"

SetArraySize == U32(m_Desc.Resources[ShaderVar.ResIndex + 1].ArraySize)

\* C32: for every 32-bit FirstElement and NumElements and every ArraySize >= 1,
\* SetArray calls BindResource only with array indices below ArraySize, also when
\* FirstElement + NumElements wraps around modulo 2^32, and binds nothing when
\* FirstElement >= ArraySize.
C32_SetArrayIndicesInRange ==
    SetArrayCalled =>
        /\ \A k \in DOMAIN ShaderVar.Calls : U32Less(ShaderVar.Calls[k], SetArraySize)
        /\ ~U32Less(ShaderVar.FirstElement, SetArraySize) => ShaderVar.Calls = << >>

\* In a step of BindResources, ShaderVar' names the call; unprimed caches are the
\* caches before it and primed caches the caches after it.
VarSlot(cache, V, ArrInd) == SlotIn(cache, BindAddress(V.CacheType, V.ResIndex, ArrInd))

\* The cache of the variable V, picked from a static cache and a binding cache.
VarCache(V, Static, SRB) == IF V.CacheType = CacheContentType_SRB THEN SRB ELSE Static

VarElements(V) == 0 .. m_Desc.Resources[V.ResIndex + 1].ArraySize - 1

Called(V, ArrInd) == \E k \in DOMAIN V.Calls : V.Calls[k] = ArrInd

\* The variable's class bit is not set in the flags: nothing changes.
ClassBitGates(V, Before, After, Log) ==
    VarTypeFlag(m_Desc.Resources[V.ResIndex + 1].VarType) \notin V.Flags =>
        After = Before /\ Log = {} /\ V.Calls = << >>

\* With KEEP_EXISTING the element ArrInd, if bound, is neither rebound nor changed.
KeepsExisting(V, Before, After, ArrInd) ==
    ("BIND_SHADER_RESOURCES_KEEP_EXISTING" \in V.Flags /\ VarSlot(Before, V, ArrInd).pObject # NullObj) =>
        ~Called(V, ArrInd) /\ VarSlot(After, V, ArrInd) = VarSlot(Before, V, ArrInd)

\* An element without an object in the mapping is left unchanged, and an error is
\* reported for it only with VERIFY_ALL_RESOLVED and when it is unbound.
UnresolvedLeftAlone(V, Before, After, Log, ArrInd) ==
    V.Mapping[ArrInd + 1] = NullObj =>
        /\ ~Called(V, ArrInd)
        /\ VarSlot(After, V, ArrInd) = VarSlot(Before, V, ArrInd)
        /\ <<"ResourceNotFound", V.ResIndex, ArrInd>> \in Log =>
               /\ "BIND_SHADER_RESOURCES_VERIFY_ALL_RESOLVED" \in V.Flags
               /\ VarSlot(Before, V, ArrInd).pObject = NullObj

BindResourcesFrame(V, Before, After, Log) ==
    /\ ClassBitGates(V, Before, After, Log)
    /\ \A ArrInd \in VarElements(V) :
           /\ KeepsExisting(V, Before, After, ArrInd)
           /\ UnresolvedLeftAlone(V, Before, After, Log, ArrInd)

\* C33: BindResources(mapping, flags) of a variable changes nothing when the
\* variable's class bit is not set in flags; with KEEP_EXISTING no array element that
\* is already bound is rebound or changed; an element for which the mapping has no
\* object is left unchanged, and an error is reported for it only when
\* VERIFY_ALL_RESOLVED is set and the element is unbound.
C33_BindResourcesKeepsAndVerifies ==
    [][(ShaderVar'.pc = "BindResources" /\ ~ub') =>
          BindResourcesFrame(ShaderVar', VarCache(ShaderVar', StaticResCache, SRBCache), VarCache(ShaderVar', StaticResCache', SRBCache'), log')]_vars

(***************************************************************************)
(* CommitRootTables and CommitRootViews of one binding                     *)
(***************************************************************************)
RECURSIVE CommitRootViews(_, _, _, _, _)
\* CommitRootViews(ResourceCache, CmdCtx, ...) from root view rv on; IsDynamic[rv] is
\* what GetDesc().Usage == USAGE_DYNAMIC reads through the BufferD3D12Impl pointer.
CommitRootViews(Cmds, RootParams, ResourceCache, rv, IsDynamic) ==
    IF rv >= GetNumRootViews(RootParams) THEN Cmds
    ELSE LET RootInd == RootParams.RootViews[rv + 1].RootIndex
             CachedRes == ResourceCache.Tables[RootInd + 1][1]
         IN  CommitRootViews(IF CachedRes.pObject # NullObj /\ IsDynamic[rv]
                             THEN Append(Cmds, [cmd |-> "SetRootConstantBufferView", RootIndex |-> RootInd,
                                                pBuffer |-> CachedRes.pObject])
                             ELSE Cmds,
                             RootParams, ResourceCache, rv + 1, IsDynamic)

\* Dynamic textures of two shader stages.
DescDynamicStages ==
    SignatureDesc(<<Res(<<"g_TexV">>, {"VERTEX"}, MaxArraySize, "TEXTURE_SRV", DYNAMIC, {}),
                    Res(<<"g_TexP">>, {"PIXEL"}, 1, "TEXTURE_SRV", DYNAMIC, {})>>,
                  << >>, FALSE)

\* Dynamic constant buffers in a table of each of two stages and a mutable root view.
DescDynamicTables ==
    SignatureDesc(<<Res(<<"g_CBV">>, {"VERTEX"}, 1, "CONSTANT_BUFFER", DYNAMIC, {"NO_DYNAMIC_BUFFERS"}),
                    Res(<<"g_BufP">>, {"PIXEL"}, 1, "BUFFER_SRV", DYNAMIC, {"FORMATTED_BUFFER"}),
                    Res(<<"g_CB">>, {"PIXEL"}, 1, "CONSTANT_BUFFER", MUTABLE, {})>>,
                  << >>, FALSE)

CommitDescs == {DescRootViewCB, DescMutableSampler, DescDynamicStages, DescDynamicTables}

\* The signature is constructed; no shader resource binding exists yet.
CommitInit ==
    \E Desc \in CommitDescs :
        \E Copy \in CopyDescription(Desc) :
            LET L == CreateLayout(Copy)
            IN  /\ m_Desc = Copy
                /\ m_pResourceAttribs = L.ResourceAttribs
                /\ m_ImmutableSamplers = L.ImmutableSamplers
                /\ m_RootParams = L.RootParams
                /\ m_TotalSlots = [SrvCbvUav |-> L.TotalSrvCbvUavSlots,
                                   Sampler |-> L.TotalSamplerSlots]
                /\ m_Hash = CalculateHash(Copy, L.ResourceAttribs)
                /\ Other = NoSignature
                /\ ResourceStates = [r \in DeviceResources |-> RESOURCE_STATE_UNKNOWN]
                /\ CmdCtx = << >>
                /\ HeapSpace = [SrvCbvUav |-> NullAllocation, Sampler |-> NullAllocation]
                /\ Life = NoLife
                /\ SRBCacheB = NoCache
                /\ Threads = NoThreads
                /\ DescriptorWrites = << >>
                /\ ShaderVar = NoShaderVar
                /\ Layout = [Desc |-> Desc, pc |-> "Constructed", i |-> Len(Copy.Resources), L |-> L]
                /\ StaticResCache = NoCache
                /\ SRBCache = NoCache
                /\ bStaticResourcesInitialized = FALSE
                /\ HandlerRuns = 0
                /\ ub = FALSE
                /\ last = NoOp
                /\ log = {}

\* What GetDesc().Usage == USAGE_DYNAMIC can read for the object of each root view.
UsageReads(RootParams, ResourceCache) ==
    {IsDynamic \in [0 .. GetNumRootViews(RootParams) - 1 -> BOOLEAN] :
        \A rv \in DOMAIN IsDynamic :
            LET o == ResourceCache.Tables[RootParams.RootViews[rv + 1].RootIndex + 1][1].pObject
            IN  IF o = NullObj THEN ~IsDynamic[rv] ELSE IsDynamic[rv] \in UsageDynamicOutcomes(o)}

\* CommitRootViews(ResourceCache, CmdCtx, ...)
CtxCommitRootViews ==
    /\ ~ub
    /\ SRBCache.Exists
    /\ \E IsDynamic \in UsageReads(m_RootParams, SRBCache) :
           CmdCtx' = CommitRootViews(<< >>, m_RootParams, SRBCache, 0, IsDynamic)
    /\ log' = {}
    /\ last' = [op |-> "CommitRootViews"]
    /\ UNCHANGED <<ctxFrame, SRBCache, ResourceStates, HeapSpace>>

\* The objects the application binds to a variable of the given type.
CommitObjects(ResourceType) ==
    IF ResourceType = "CONSTANT_BUFFER" THEN {"BufDef", "BufDyn"} ELSE {CtxObject(ResourceType)}

CommitNext ==
    \/ \E SrvCbvUavExhausted \in BOOLEAN, SamplerExhausted \in BOOLEAN :
           CtxInitSRBResourceCache(SrvCbvUavExhausted, SamplerExhausted)
    \/ \E ResIndex \in ResIndices, ArrayIndex \in 0 .. MaxArraySize - 1 :
           \E pObj \in {NullObj} \cup CommitObjects(m_Desc.Resources[ResIndex + 1].ResourceType) :
               BindResource(CacheContentType_SRB, ResIndex, ArrayIndex, pObj)
    \/ \E SrvCbvUavExhausted \in BOOLEAN, SamplerExhausted \in BOOLEAN :
           CtxCommitRootTables(SrvCbvUavExhausted, SamplerExhausted)
    \/ CtxCommitRootViews

CommitSpec == CommitInit /\ [][CommitNext]_vars

\* The SetRootConstantBufferView commands recorded for root index RootInd.
RootViewCommands(RootInd) ==
    {k \in DOMAIN CmdCtx : CmdCtx[k].cmd = "SetRootConstantBufferView" /\ CmdCtx[k].RootIndex = RootInd}

\* The root view of a slot that holds a buffer is set by CommitRootTables iff the
\* buffer is not dynamic and by CommitRootViews iff it is; that of an empty slot by
\* neither.
RootViewSetByOne ==
    \A rv \in 1 .. GetNumRootViews(m_RootParams) :
        LET RootInd == m_RootParams.RootViews[rv].RootIndex
            o == SRBCache.Tables[RootInd + 1][1].pObject
            Owner == IF o = NullObj THEN "None"
                     ELSE IF UsageDynamic(o) THEN "CommitRootViews" ELSE "CommitRootTables"
        IN  (o = NullObj \/ KindOf(o) = "Buffer") =>
                /\ Cardinality(RootViewCommands(RootInd)) = (IF last.op = Owner THEN 1 ELSE 0)
                /\ \A k \in RootViewCommands(RootInd) : CmdCtx[k].pBuffer = o

RECURSIVE SizeOfPrecedingDynamicTables(_, _, _)
\* The sum of the sizes of the dynamic tables of heap kind Kind among the first n root
\* tables of P.
SizeOfPrecedingDynamicTables(P, Kind, n) ==
    IF n = 0 THEN 0
    ELSE SizeOfPrecedingDynamicTables(P, Kind, n - 1) +
         (IF ~IsNonDynamicTable(P.RootTables[n]) /\ HeapKind(P.RootTables[n]) = Kind
          THEN P.RootTables[n].DescriptorTableSize ELSE 0)

TotalDynamicSlots(Kind) ==
    IF Kind = "SAMPLER" THEN m_TotalSlots.Sampler[ROOT_TYPE_DYNAMIC]
    ELSE m_TotalSlots.SrvCbvUav[ROOT_TYPE_DYNAMIC]

\* The allocation CommitRootTables made for the dynamic tables of heap kind Kind.
DynamicAllocation(Kind) ==
    IF Kind = "SAMPLER" THEN last.DynamicSamplerDescriptors ELSE last.DynamicCbvSrvUavDescriptors

\* The offsets in the allocation of kind Kind that descriptors were copied to.
CopyOffsets(Kind) ==
    {CmdCtx[k].Dst.Offset : k \in {j \in DOMAIN CmdCtx :
        /\ CmdCtx[j].cmd = "CopyDescriptorsSimple"
        /\ CmdCtx[j].Dst.pDescriptorHeap = DynamicAllocation(Kind).pDescriptorHeap}}

\* Every dynamic table is set once, at the handle that follows the regions of the
\* dynamic tables of its kind before it; the regions fill the allocation.
DynamicRegionsPacked ==
    LET P == m_RootParams
    IN  /\ \A rt \in 1 .. GetNumRootTables(P) :
               ~IsNonDynamicTable(P.RootTables[rt]) =>
                   LET Set == {k \in DOMAIN CmdCtx : /\ CmdCtx[k].cmd = "SetRootDescriptorTable"
                                                     /\ CmdCtx[k].RootIndex = P.RootTables[rt].RootIndex}
                   IN  /\ Cardinality(Set) = 1
                       /\ \A k \in Set :
                              CmdCtx[k].BaseDescriptor =
                                  GetHandle(DynamicAllocation(HeapKind(P.RootTables[rt])),
                                            SizeOfPrecedingDynamicTables(P, HeapKind(P.RootTables[rt]), rt - 1))
        /\ \A Kind \in {"CBV_SRV_UAV", "SAMPLER"} :
               /\ SizeOfPrecedingDynamicTables(P, Kind, GetNumRootTables(P)) = TotalDynamicSlots(Kind)
               /\ DynamicAllocation(Kind) # NullAllocation =>
                      /\ DynamicAllocation(Kind).NumHandles = TotalDynamicSlots(Kind)
                      /\ CopyOffsets(Kind) \subseteq 0 .. TotalDynamicSlots(Kind) - 1

\* C34: for every root-view slot of a cache the root constant-buffer view is set by
\* exactly one of CommitRootTables and CommitRootViews when a buffer is bound
\* (CommitRootTables iff the buffer's usage is not dynamic, CommitRootViews iff it is)
\* and by neither when the slot is empty; in CommitRootTables the dynamic tables of
\* each heap kind receive consecutive non-overlapping regions of the per-submission
\* allocation whose sizes sum to the signature's total dynamic slot count of that kind.
C34_RootViewsAndDynamicRegions ==
    /\ last.op \in {"CommitRootTables", "CommitRootViews"} => RootViewSetByOne
    /\ last.op = "CommitRootTables" => DynamicRegionsPacked

\* CommitRootTables has left a dynamic buffer's root view to CommitRootViews and has
\* set two dynamic tables of one heap kind.
C34_Witness ==
    /\ last.op = "CommitRootTables"
    /\ \E rv \in 1 .. GetNumRootViews(m_RootParams) :
           /\ SRBCache.Tables[m_RootParams.RootViews[rv].RootIndex + 1][1].pObject = "BufDyn"
           /\ RootViewCommands(m_RootParams.RootViews[rv].RootIndex) = {}
    /\ \E k \in DOMAIN CmdCtx :
           /\ CmdCtx[k].cmd = "SetRootDescriptorTable"
           /\ CmdCtx[k].BaseDescriptor.pDescriptorHeap = "GPUSrvCbvUavHeap"
           /\ CmdCtx[k].BaseDescriptor.Offset > 0
           /\ \E rt \in 1 .. GetNumRootTables(m_RootParams) :
                  /\ m_RootParams.RootTables[rt].RootIndex = CmdCtx[k].RootIndex
                  /\ ~IsNonDynamicTable(m_RootParams.RootTables[rt])

(***************************************************************************)
(* The static resource cache of the signature: the slots CreateLayout      *)
(* gives the Static resources against the table sizes of the constructor.  *)
(***************************************************************************)

\* The slots of the static cache table that Static resource i occupies.
StaticInterval(i) ==
    m_pResourceAttribs[i].SigOffsetFromTableStart
        .. m_pResourceAttribs[i].SigOffsetFromTableStart + m_Desc.Resources[i].ArraySize - 1

IsStaticResource(i) == m_Desc.Resources[i].VarType = SHADER_RESOURCE_VARIABLE_TYPE_STATIC

\* The processed Static resources whose static cache table is t.
StaticResourcesOfTable(t) ==
    {i \in Processed : IsStaticResource(i) /\ m_pResourceAttribs[i].SigRootIndex = t}

\* C35: every Static resource occupies the slots [SigOffset, SigOffset + ArraySize) of
\* the static cache table indexed by its descriptor range type (SRV 0, UAV 1, CBV 2,
\* sampler 3); the intervals of one table are pairwise disjoint and lie inside the table
\* size the constructor computed from the unsorted description, and fill it exactly once
\* all resources are processed; every non-Static resource has an invalid static-cache
\* root index and offset.
C35_StaticCacheIntervals ==
    Layout.pc \in {"CreateLayout", "Constructed"}
        => /\ \A i \in Processed :
                  IF IsStaticResource(i)
                  THEN /\ m_pResourceAttribs[i].SigRootIndex
                              = GetDescriptorRangeType(m_Desc.Resources[i].ResourceType)
                       /\ m_pResourceAttribs[i].SigRootIndex
                              = CASE m_Desc.Resources[i].ResourceType
                                         \in {"TEXTURE_SRV", "BUFFER_SRV", "INPUT_ATTACHMENT", "ACCEL_STRUCT"} -> 0
                                  [] m_Desc.Resources[i].ResourceType \in {"TEXTURE_UAV", "BUFFER_UAV"} -> 1
                                  [] m_Desc.Resources[i].ResourceType = "CONSTANT_BUFFER" -> 2
                                  [] m_Desc.Resources[i].ResourceType = "SAMPLER" -> 3
                       /\ StaticInterval(i)
                              \subseteq 0 .. StaticResCacheTblSizes(Layout.Desc)[m_pResourceAttribs[i].SigRootIndex + 1] - 1
                       /\ StaticResCache.Exists
                       /\ StaticInterval(i)
                              \subseteq 0 .. Len(StaticResCache.Tables[m_pResourceAttribs[i].SigRootIndex + 1]) - 1
                  ELSE NoStaticSlot(i)
           /\ \A i, j \in Processed :
                  /\ i # j /\ IsStaticResource(i) /\ IsStaticResource(j)
                  /\ m_pResourceAttribs[i].SigRootIndex = m_pResourceAttribs[j].SigRootIndex
                  => StaticInterval(i) \cap StaticInterval(j) = {}
           /\ Len(m_pResourceAttribs) = Len(m_Desc.Resources)
                  => \A t \in RangeTypes :
                         /\ UNION {StaticInterval(i) : i \in StaticResourcesOfTable(t)}
                                = 0 .. StaticResCacheTblSizes(Layout.Desc)[t + 1] - 1
                         /\ StaticResCache.Exists
                                => Len(StaticResCache.Tables[t + 1])
                                       = StaticResCacheTblSizes(Layout.Desc)[t + 1]

\* A constructed signature with two Static resources in one static cache table, one of
\* them an array, and a resource that is not Static.
C35_Witness ==
    /\ Layout.pc = "Constructed"
    /\ \E i, j \in Processed :
           /\ i # j /\ IsStaticResource(i) /\ IsStaticResource(j)
           /\ m_pResourceAttribs[i].SigRootIndex = m_pResourceAttribs[j].SigRootIndex
           /\ m_Desc.Resources[i].ArraySize > 1
           /\ m_pResourceAttribs[j].SigOffsetFromTableStart > 0
    /\ \E k \in Processed : ~IsStaticResource(k)

(***************************************************************************)
(* The destination slots InitializeStaticSRBResources addresses            *)
(***************************************************************************)

\* The last step ran the loops of InitializeStaticSRBResources on the binding's cache.
RanInitializeStaticSRBResources ==
    /\ last.op \in {"InitializeStaticSRBResources", "InitializeStaticSRBResourcesImpl"}
    /\ StaticResCache.Exists

\* The Static sampler resources that have an immutable sampler assigned.
StaticImmutableSamplers ==
    {r \in ResIndices :
        /\ m_Desc.Resources[r + 1].VarType = SHADER_RESOURCE_VARIABLE_TYPE_STATIC
        /\ m_Desc.Resources[r + 1].ResourceType = "SAMPLER"
        /\ IsImmutableSamplerAssigned(m_pResourceAttribs[r + 1])}

\* C36: InitializeStaticSRBResources addresses only root tables and slots that exist in
\* the destination cache (root index below the number of tables, offset below the table
\* size), and forms no reference for a Static sampler that has an immutable sampler
\* assigned.
C36_DestinationSlotsExist ==
    RanInitializeStaticSRBResources
        => /\ \A a \in last.access :
                  /\ a[2] >= 0 /\ a[2] < Len(SRBCache.Tables)
                  /\ a[3] >= 0 /\ a[3] < Len(SRBCache.Tables[a[2] + 1])
           /\ \A r \in StaticImmutableSamplers :
                  \A a \in last.access :
                      <<a[2], a[3]>> # ElementAddress(r, 0, CacheContentType_SRB)

(***************************************************************************)
(* Root tables are homogeneous                                             *)
(***************************************************************************)

\* The table-bound resources placed in root table T.
ResourcesOfTable(T) ==
    {i \in Processed : TableBound(i) /\ m_pResourceAttribs[i].SRBRootIndex = T.RootIndex}

IsSamplerRange(Range) == Range.RangeType = D3D12_DESCRIPTOR_RANGE_TYPE_SAMPLER

\* C37: after any sequence of AllocateResourceSlot calls every root table is
\* homogeneous: all its descriptor ranges are sampler ranges or none is, so the heap kind
\* derived from its first range is that of every range, and every resource placed in it
\* has the table's shader visibility and root type.
C37_RootTablesHomogeneous ==
    \A rt \in 1 .. GetNumRootTables(m_RootParams) :
        LET T == m_RootParams.RootTables[rt]
        IN  /\ Len(T.Ranges) > 0
            /\ \A r \in 1 .. Len(T.Ranges) :
                   /\ IsSamplerRange(T.Ranges[r]) = IsSamplerRange(T.Ranges[1])
                   /\ (IF IsSamplerRange(T.Ranges[r]) THEN "SAMPLER" ELSE "CBV_SRV_UAV") = HeapKind(T)
            /\ \A i \in ResourcesOfTable(T) :
                   /\ T.ShaderVisibility
                          = IF Cardinality(m_Desc.Resources[i].ShaderStages) > 1 THEN "ALL"
                            ELSE CHOOSE st \in m_Desc.Resources[i].ShaderStages : TRUE
                   /\ T.RootType
                          = IF m_Desc.Resources[i].VarType = SHADER_RESOURCE_VARIABLE_TYPE_DYNAMIC
                            THEN ROOT_TYPE_DYNAMIC ELSE ROOT_TYPE_STATIC
                   /\ IsSamplerResource(i) = IsSamplerRange(T.Ranges[1])

\* A sampler table and a resource table of the same shader stage and root type, the
\* resource table with two ranges.
C37_Witness ==
    \E a, b \in 1 .. GetNumRootTables(m_RootParams) :
        LET A == m_RootParams.RootTables[a]
            B == m_RootParams.RootTables[b]
        IN  /\ A.ShaderVisibility = B.ShaderVisibility
            /\ A.RootType = B.RootType
            /\ IsSamplerRange(A.Ranges[1])
            /\ ~IsSamplerRange(B.Ranges[1])
            /\ Len(B.Ranges) > 1
            /\ ResourcesOfTable(A) # {}
            /\ Cardinality(ResourcesOfTable(B)) > 1

(***************************************************************************)
(* The recursive bind of the paired sampler                                *)
(***************************************************************************)

\* The last call bound a texture view that carries a sampler to a texture SRV slot
\* combined with a sampler resource that has no immutable sampler.
BoundViewToCombinedSlot ==
    /\ IsBindResource(last)
    /\ BoundResDesc(last).ResourceType = "TEXTURE_SRV"
    /\ KindOf(last.pObj) = "TextureView"
    /\ GetSampler(last.pObj) # NullObj
    /\ IsCombinedWithSampler(BoundAttribs(last))
    /\ ~IsImmutableSamplerAssigned(m_pResourceAttribs[BoundAttribs(last).SamplerInd + 1])

\* C38: binding a texture view with a non-null sampler to a combined-sampler texture SRV
\* slot whose paired sampler is not immutable raises no development check: the
\* recursive bind of the paired sampler is not reported as a sampler set directly in a
\* signature that uses combined texture samplers.
C38_PairedSamplerBindNotDirect ==
    BoundViewToCombinedSlot
        => \A m \in log : m[1] # "SamplersSetDirectly"

(***************************************************************************)
(* Sampler resources that match an immutable sampler already assigned      *)
(***************************************************************************)

\* The immutable sampler (position in m_ImmutableSamplers) that CreateLayout finds for
\* resource i, or 0.
ImmutableSamplerOf(i) ==
    IF m_Desc.Resources[i].ResourceType = "SAMPLER"
    THEN FindImmutableSampler(m_Desc.Resources[i], m_Desc, GetCombinedSamplerSuffix(m_Desc)) + 1
    ELSE 0

\* Resource i matches an immutable sampler that an earlier resource assigned.
MatchesAssignedImmutableSampler(i) ==
    /\ ImmutableSamplerOf(i) > 0
    /\ \E j \in 1 .. i - 1 : ImmutableSamplerOf(j) = ImmutableSamplerOf(i)

\* The register <<space, bind point>> recorded for resource i.
RecordedRegister(i) == <<m_pResourceAttribs[i].Space, m_pResourceAttribs[i].Register>>

\* C39: a sampler resource that matches an immutable sampler already assigned by an
\* earlier resource has that immutable sampler's shader register and register space as
\* its recorded bind point and space, and no later sampler resource shares the bind
\* point with it.
C39_RepeatedMatchUsesPreviousBindPoint ==
    \A i \in Processed :
        MatchesAssignedImmutableSampler(i)
            => /\ m_pResourceAttribs[i].Register
                      = m_ImmutableSamplers[ImmutableSamplerOf(i)].ShaderRegister
               /\ m_pResourceAttribs[i].Space
                      = m_ImmutableSamplers[ImmutableSamplerOf(i)].RegisterSpace
               /\ \A k \in Processed :
                      (k > i /\ IsSamplerResource(k)) => RecordedRegister(k) # RecordedRegister(i)

(***************************************************************************)
(* VerifyTLASResourceBinding (ShaderResourceVariableBase.hpp), applied to  *)
(* every variable class, object to bind and cached object.  The object     *)
(* pointer pTLASImpl is what the caller's cast of pTLAS yields: the object *)
(* when it is a top-level acceleration structure, null otherwise.          *)
(***************************************************************************)

\* The results of the call: the return value, the messages logged, and whether a null
\* pointer was dereferenced, after which the call may also not return at all.
VerifyTLASResourceBinding(ResDesc, ArrayIndex, pTLAS, pTLASImpl, pCachedAS) ==
    IF pTLAS # NullObj /\ pTLASImpl = NullObj
    THEN IF pCachedAS = NullObj
         THEN {[Returns |-> r, BindingOK |-> b, log |-> l, ub |-> TRUE] :
                   r \in BOOLEAN, b \in BOOLEAN,
                   l \in {{}, {<<"InvalidResourceType", NullObj, ArrayIndex>>}}}
         ELSE {[Returns |-> TRUE, BindingOK |-> FALSE,
                log |-> {<<"InvalidResourceType", pCachedAS, ArrayIndex>>}, ub |-> FALSE]}
    ELSE IF /\ ResDesc.VarType # SHADER_RESOURCE_VARIABLE_TYPE_DYNAMIC
            /\ pCachedAS # NullObj
            /\ pCachedAS # pTLAS
         THEN {[Returns |-> TRUE, BindingOK |-> FALSE,
                log |-> {<<"AlreadyBound", pCachedAS, ArrayIndex>>}, ub |-> FALSE]}
         ELSE {[Returns |-> TRUE, BindingOK |-> TRUE, log |-> {}, ub |-> FALSE]}

\* The acceleration-structure resources the function is asked about.
TLASResDescs ==
    {Res(<<"g_TLAS">>, {"RAY_GEN"}, MaxArraySize, "ACCEL_STRUCT", t, {}) : t \in VarTypes}

\* The objects a slot of an acceleration-structure resource can hold.
CachedTLASObjects == {NullObj} \cup {o \in Objects : KindOf(o) = "TopLevelAS"}

VerifyInit ==
    \E ResDesc \in TLASResDescs, ArrayIndex \in 0 .. MaxArraySize - 1,
       pTLAS \in {NullObj} \cup Objects, pCachedAS \in CachedTLASObjects :
        /\ m_Desc = NoDesc
        /\ m_pResourceAttribs = << >>
        /\ m_ImmutableSamplers = << >>
        /\ m_RootParams = EmptyRootParams
        /\ m_TotalSlots = [SrvCbvUav |-> LayoutStart(NoDesc).TotalSrvCbvUavSlots,
                           Sampler |-> LayoutStart(NoDesc).TotalSamplerSlots]
        /\ m_Hash = 0
        /\ Other = NoSignature
        /\ ResourceStates = [r \in DeviceResources |-> RESOURCE_STATE_UNKNOWN]
        /\ CmdCtx = << >>
        /\ HeapSpace = [SrvCbvUav |-> NullAllocation, Sampler |-> NullAllocation]
        /\ Life = NoLife
        /\ SRBCacheB = NoCache
        /\ Threads = NoThreads
        /\ DescriptorWrites = << >>
        /\ ShaderVar = [pc |-> "VerifyTLASResourceBinding", ResDesc |-> ResDesc,
                        ArrayIndex |-> ArrayIndex, pTLAS |-> pTLAS, pCachedAS |-> pCachedAS]
        /\ Layout = [Desc |-> NoDesc, pc |-> "None", i |-> 0, L |-> LayoutStart(NoDesc)]
        /\ StaticResCache = NoCache
        /\ SRBCache = NoCache
        /\ bStaticResourcesInitialized = FALSE
        /\ HandlerRuns = 0
        /\ ub = FALSE
        /\ last = NoOp
        /\ log = {}

\* The call VerifyTLASResourceBinding(ResDesc, ArrayIndex, pTLAS, pTLASImpl, pCachedAS).
VerifyTLAS ==
    /\ ShaderVar.pc = "VerifyTLASResourceBinding"
    /\ \E out \in VerifyTLASResourceBinding(
                      ShaderVar.ResDesc, ShaderVar.ArrayIndex, ShaderVar.pTLAS,
                      IF KindOf(ShaderVar.pTLAS) = "TopLevelAS" THEN ShaderVar.pTLAS ELSE NullObj,
                      ShaderVar.pCachedAS) :
           /\ ShaderVar' = [ShaderVar EXCEPT !.pc = "Done"]
           /\ last' = [op |-> "VerifyTLASResourceBinding", Returns |-> out.Returns,
                       BindingOK |-> out.BindingOK]
           /\ log' = out.log
           /\ ub' = out.ub
    /\ UNCHANGED <<varFrame, StaticResCache, SRBCache>>

VerifyNext == VerifyTLAS

VerifySpec == VerifyInit /\ [][VerifyNext]_vars

\* VerifyTLASResourceBinding returned false.
ReturnedFalse == last.Returns /\ ~last.BindingOK

\* C40: given a non-null object that is not a TLAS, VerifyTLASResourceBinding reports
\* the type mismatch and returns false whatever the slot holds, also when nothing is
\* cached in it; given a TLAS or null it returns, and returns false exactly when the
\* variable class is not Dynamic and a different non-null object is cached.
C40_VerifyTLASResourceBinding ==
    ShaderVar.pc = "Done"
        => IF ShaderVar.pTLAS # NullObj /\ KindOf(ShaderVar.pTLAS) # "TopLevelAS"
           THEN /\ ~ub
                /\ ReturnedFalse
                /\ \E m \in log : m[1] = "InvalidResourceType"
           ELSE /\ ~ub
                /\ last.Returns
                /\ ~last.BindingOK
                       = (/\ ShaderVar.ResDesc.VarType # SHADER_RESOURCE_VARIABLE_TYPE_DYNAMIC
                          /\ ShaderVar.pCachedAS # NullObj
                          /\ ShaderVar.pCachedAS # ShaderVar.pTLAS)

====
